---- MODULE Spec2Model ----
(***************************************************************************)
(* Retrieval engine of omni-webui: the VectorStore contract as the Chroma  *)
(* client implements it, the ingestion pipeline save_docs_to_vector_db,    *)
(* and the query handlers.                                                 *)
(*                                                                         *)
(* The chromadb library is outside the repository.  Its calls are the      *)
(* definitions named Client... and Collection... below; each is atomic:    *)
(* it either takes effect and returns, or throws and changes nothing.      *)
(* Every such call can throw (the backend is unavailable); the fault       *)
(* argument of an operation says which of its backend calls throws         *)
(* (0 = none).                                                             *)
(***************************************************************************)
EXTENDS Integers, Sequences, FiniteSets, TLC

\* ------------------------------------------------------------- bounds
MaxItems == 2        \* longest item list handed to insert / upsert
BatchSize == 1       \* scaled-down api.get_max_batch_size() of create_batches
MaxLimit == 2        \* largest limit handed to search / query
MaxQueries == 2      \* most query vectors handed to one search

Colls == {"c1", "c2"}
Ids == {1, 2}
Hashes == {"h1", "h2"}

\* What a VectorItem carries besides its id.
Payloads ==
  { [text |-> "a", vector |-> <<1, 0>>, metadata |-> [hash |-> "h1"]],
    [text |-> "b", vector |-> <<1, 1>>, metadata |-> [hash |-> "h2"]] }

VectorItem(i, p) ==
  [id |-> i, text |-> p.text, vector |-> p.vector, metadata |-> p.metadata]

VectorItems == { VectorItem(i, p) : i \in Ids, p \in Payloads }

PayloadOf(item) ==
  [text |-> item.text, vector |-> item.vector, metadata |-> item.metadata]

\* Query vectors of search.
QueryVectors == { <<1, 0>>, <<1, 2>> }

\* Metadata filters: a dict; the empty dict stands for "no filter given".
NoFilter == [k \in {} |-> "h1"]
Filters == { [hash |-> h] : h \in Hashes }

VARIABLES
  store,   \* the backend: collection name -> [exists, items: id -> payload]
  last,    \* the most recent call: what was asked, what came back, the store before
  hist,    \* per name, what happened since it was last dropped:
           \* created (get_or_create_collection returned), written (an insert
           \* or upsert returned)
  app,     \* request.app.state: config.ENABLE_RAG_HYBRID_SEARCH, config.TOP_K,
           \* config.RELEVANCE_THRESHOLD and rf, the reranking function;
           \* config.RAG_EMBEDDING_ENGINE, config.RAG_EMBEDDING_MODEL and ef
  ingests, \* per worker thread, the save_docs_to_vector_db call it is in and
           \* how far that call has got
  dotenv,  \* the .env file of the working directory: [exists, content]
  config,  \* the Config object: field name -> value, a section being itself
           \* field name -> value; a deleted attribute is out of the domain
  config_json,   \* data_dir / "config.json": [exists, json]
  Memories,      \* the memory table: a set of rows [id, user_id]
  CHROMA_CLIENT, \* per user, the collection user-memory-<user>: [exists, ids]
  SESSION_POOL,  \* socket session id -> id of the user it was authenticated as
  USER_POOL,     \* user id -> list of session ids
  sio      \* the socket server's connections: per session id, whether it is
           \* connected and the users it has authenticated as

vars == <<store, last, hist, app, ingests,
          dotenv, config, config_json, Memories, CHROMA_CLIENT,
          SESSION_POOL, USER_POOL, sio>>

\* ------------------------------------------------------------- start values
\* No .env file in the working directory.
NoDotenv == [exists |-> FALSE, content |-> <<>>]

\* Config(): every field at its default.  The model keeps one scalar field
\* and two sections with one field each.
UIStart == [default_locale |-> "en-US"]
OllamaStart == [enable |-> "true"]
ConfigStart == [webhook_url |-> "", ui |-> UIStart, ollama |-> OllamaStart]

\* No config.json in the data directory.
NoConfigJson == [exists |-> FALSE, json |-> [k \in {} |-> ""]]

\* The users of the memory endpoints; an empty table and no collection.
MemoryUsers == {"u1", "u2"}
NoMemories == {}
NoMemoryIndex == [u \in MemoryUsers |-> [exists |-> FALSE, ids |-> {}]]

\* The socket session ids, and the pools as the module creates them.
Sids == {1, 2}
NoSessions == [s \in {} |-> ""]
NoUsers == [u \in {} |-> <<>>]
NoSockets == [s \in Sids |-> [state |-> "new", users |-> {}]]

\* ------------------------------------------------------------- helpers
NoItems == [i \in {} |-> [text |-> "a", vector |-> <<1, 0>>, metadata |-> [hash |-> "h1"]]]
NoCollection == [exists |-> FALSE, items |-> NoItems]
EmptyStore == [c \in Colls |-> NoCollection]

Range(s) == { s[i] : i \in DOMAIN s }
SeqIds(items) == [i \in DOMAIN items |-> items[i].id]
HasDupIds(items) == \E i, j \in DOMAIN items : i # j /\ items[i].id = items[j].id

RECURSIVE SetToSeq(_)
\* The order in which the backend lists items; ascending id stands for it.
SetToSeq(S) ==
  IF S = {} THEN <<>>
  ELSE LET m == CHOOSE x \in S : \A y \in S : x <= y
       IN <<m>> \o SetToSeq(S \ {m})

Take(s, n) == IF n >= Len(s) THEN s ELSE SubSeq(s, 1, n)

\* The one element of a set of one element.
TheOne(S) == CHOOSE x \in S : TRUE

Matches(metadata, filter) ==
  \A k \in DOMAIN filter : k \in DOMAIN metadata /\ metadata[k] = filter[k]

\* ------------------------------------------------------------- results
\* None, and the two ways a call ends.
Null == [isNull |-> TRUE]
\* `effects` lists, in order, what the call did to the set of collections:
\* "create" (get_or_create_collection returned), "done" (insert / upsert
\* returned), "drop" (delete_collection returned), "reset" (reset returned).
\* `calls` lists the calls the operation made on the VectorStore and on the
\* embedding function, each with how it ended; `error` names what was raised.
RetE(s, r, e) ==
  [store |-> s, outcome |-> "ok", result |-> r, effects |-> e,
   calls |-> <<>>, error |-> ""]
RaiseE(s, e) ==
  [store |-> s, outcome |-> "raised", result |-> Null, effects |-> e,
   calls |-> <<>>, error |-> "backend"]
Ret(s, r) == RetE(s, r, <<>>)
Raise(s) == RaiseE(s, <<>>)

\* GetResult(ids=[ids], documents=[documents], metadatas=[metadatas]) for the
\* items of `items` whose ids are listed in `ids`.
GetResult(items, ids) ==
  [isNull |-> FALSE,
   ids |-> <<ids>>,
   documents |-> <<[n \in DOMAIN ids |-> items[ids[n]].text]>>,
   metadatas |-> <<[n \in DOMAIN ids |-> items[ids[n]].metadata]>>]

\* ------------------------------------------------------------- distance
RECURSIVE Dot(_, _)
Dot(v, w) == IF v = <<>> THEN 0 ELSE Head(v) * Head(w) + Dot(Tail(v), Tail(w))

\* The collections are created with "hnsw:space": "cosine".  The cosine
\* distance 1 - cos is irrational in general; for vectors without negative
\* components 100 * (1 - cos^2) orders the items exactly as 1 - cos does, and
\* it is an integer for the vectors of this model.
DistScale == 100
Distance(v, q) ==
  DistScale - (DistScale * Dot(v, q) * Dot(v, q)) \div (Dot(v, v) * Dot(q, q))

\* i is listed before j in a result for query vector q (ties: by id).
Nearer(items, q, i, j) ==
  \/ Distance(items[i].vector, q) < Distance(items[j].vector, q)
  \/ /\ Distance(items[i].vector, q) = Distance(items[j].vector, q)
     /\ i <= j

RECURSIVE SortByDistance(_, _, _)
SortByDistance(items, q, S) ==
  IF S = {} THEN <<>>
  ELSE LET m == CHOOSE x \in S : \A y \in S : Nearer(items, q, x, y)
       IN <<m>> \o SortByDistance(items, q, S \ {m})

\* collection.query(query_embeddings=vectors, n_results=limit): per query
\* vector the `limit` nearest items, nearest first.
CollectionQuery(items, vectors, limit) ==
  LET hits == [n \in DOMAIN vectors |->
                 Take(SortByDistance(items, vectors[n], DOMAIN items), limit)]
  IN [ids |-> hits,
      distances |-> [n \in DOMAIN vectors |->
                       [m \in DOMAIN hits[n] |->
                          Distance(items[hits[n][m]].vector, vectors[n])]],
      documents |-> [n \in DOMAIN vectors |->
                       [m \in DOMAIN hits[n] |-> items[hits[n][m]].text]],
      metadatas |-> [n \in DOMAIN vectors |->
                       [m \in DOMAIN hits[n] |-> items[hits[n][m]].metadata]]]

\* collection.get(where=filter, limit=limit): the matching ids in backend
\* order; limit 0 stands for limit=None.
CollectionGet(items, filter, limit) ==
  LET all == SetToSeq({ i \in DOMAIN items : Matches(items[i].metadata, filter) })
  IN IF limit = 0 THEN all ELSE Take(all, limit)

\* client.get_collection(name) throws when the backend fails (fault 1) or no
\* collection has that name.
GetCollectionThrows(s, c, fault) == fault = 1 \/ ~s[c].exists

\* ------------------------------------------------------------- ChromaClient reads
has_collection(s, c, fault) ==
  IF fault = 1 THEN Raise(s) ELSE Ret(s, [isNull |-> FALSE, value |-> s[c].exists])

\* Mutant: the except clause of search re-raises.
search_except_raise(s) == Raise(s)

\* The except clause of search: `except Exception: return None`.
search_except(s) == Ret(s, Null)

\* Mutant: search leaves n_results out, and the backend lists every item.
search_without_limit(s, c, vectors, limit, fault) ==
  IF GetCollectionThrows(s, c, fault) \/ fault = 2
  THEN search_except(s)
  ELSE LET r == CollectionQuery(s[c].items, vectors, Cardinality(DOMAIN s[c].items))
       IN Ret(s, [isNull |-> FALSE, ids |-> r.ids, distances |-> r.distances,
                  documents |-> r.documents, metadatas |-> r.metadatas])

search(s, c, vectors, limit, fault) ==
  IF GetCollectionThrows(s, c, fault) \/ fault = 2
  THEN search_except(s)
  ELSE LET r == CollectionQuery(s[c].items, vectors, limit)
       IN Ret(s, [isNull |-> FALSE, ids |-> r.ids, distances |-> r.distances,
                  documents |-> r.documents, metadatas |-> r.metadatas])

\* The except clause of query: log and `return None`.
query_except(s) == Ret(s, Null)

query(s, c, filter, limit, fault) ==
  IF GetCollectionThrows(s, c, fault) \/ fault = 2
  THEN query_except(s)
  ELSE Ret(s, GetResult(s[c].items, CollectionGet(s[c].items, filter, limit)))

\* get has no try block: what get_collection or collection.get throws reaches
\* the caller.
get(s, c, fault) ==
  IF GetCollectionThrows(s, c, fault) \/ fault = 2
  THEN Raise(s)
  ELSE Ret(s, GetResult(s[c].items, CollectionGet(s[c].items, NoFilter, 0)))

\* ------------------------------------------------------------- ChromaClient writes
Restrict(f, D) == [i \in D |-> f[i]]

\* create_batches: one batch when the list fits, else slices of BatchSize.
RECURSIVE create_batches(_)
create_batches(items) ==
  IF Len(items) <= BatchSize THEN <<items>>
  ELSE <<SubSeq(items, 1, BatchSize)>>
         \o create_batches(SubSeq(items, BatchSize + 1, Len(items)))

\* collection.add and collection.upsert validate the ids of the batch: an
\* empty batch or one that repeats an id is rejected.
BatchRejected(batch) == batch = <<>> \/ HasDupIds(batch)

\* Mutant: the backend takes vectors of any length.
DimensionIgnored(items, batch) == FALSE

\* A collection has one dimensionality, that of the vectors it holds:
\* collection.add and collection.upsert reject a batch with a vector of
\* another length, or with vectors of two lengths.
DimensionMismatch(items, batch) ==
  \E n \in DOMAIN batch :
    \/ \E i \in DOMAIN items : Len(items[i].vector) # Len(batch[n].vector)
    \/ \E k \in DOMAIN batch : Len(batch[k].vector) # Len(batch[n].vector)

ItemWithId(batch, i) == batch[CHOOSE n \in DOMAIN batch : batch[n].id = i]

\* collection.add: an id the collection already holds is left as it is.
CollectionAdd(items, batch) ==
  [i \in DOMAIN items \cup Range(SeqIds(batch)) |->
     IF i \in DOMAIN items THEN items[i] ELSE PayloadOf(ItemWithId(batch, i))]

\* collection.upsert: an id the collection already holds is replaced.
CollectionUpsert(items, batch) ==
  [i \in DOMAIN items \cup Range(SeqIds(batch)) |->
     IF i \in Range(SeqIds(batch)) THEN PayloadOf(ItemWithId(batch, i)) ELSE items[i]]

\* client.get_or_create_collection(name, metadata={"hnsw:space": "cosine"})
GetOrCreate(s, c) == [s EXCEPT ![c].exists = TRUE]

\* The loop `for batch in create_batches(...): collection.add(*batch)`;
\* fault j + 1 makes the add of batch j throw.
RECURSIVE AddBatches(_, _, _, _, _)
AddBatches(s, c, batches, j, fault) ==
  IF j > Len(batches) THEN RetE(s, Null, <<"create", "done">>)
  ELSE IF \/ fault = j + 1
          \/ BatchRejected(batches[j])
          \/ DimensionMismatch(s[c].items, batches[j])
    THEN RaiseE(s, <<"create">>)
  ELSE AddBatches([s EXCEPT ![c].items = CollectionAdd(@, batches[j])],
                  c, batches, j + 1, fault)

\* Mutant: insert adds the first batch and forgets the loop.
insert_first_batch(s, c, items, fault) ==
  IF fault = 1 THEN Raise(s)
  ELSE AddBatches(GetOrCreate(s, c), c, <<create_batches(items)[1]>>, 1, fault)

\* Mutant: insert catches what the backend throws and returns.
insert_swallow(s, c, items, fault) ==
  IF fault = 1 THEN Ret(s, Null)
  ELSE [AddBatches(GetOrCreate(s, c), c, create_batches(items), 1, fault)
          EXCEPT !.outcome = "ok"]

insert(s, c, items, fault) ==
  IF fault = 1 THEN Raise(s)
  ELSE AddBatches(GetOrCreate(s, c), c, create_batches(items), 1, fault)

\* Mutant: upsert calls collection.add, which keeps the entries it finds.
upsert_as_add(s, c, items, fault) ==
  IF fault = 1 THEN Raise(s)
  ELSE IF fault = 2 \/ BatchRejected(items) \/ DimensionMismatch(s[c].items, items)
    THEN RaiseE(GetOrCreate(s, c), <<"create">>)
  ELSE RetE([GetOrCreate(s, c) EXCEPT ![c].items = CollectionAdd(@, items)],
            Null, <<"create", "done">>)

upsert(s, c, items, fault) ==
  IF fault = 1 THEN Raise(s)
  ELSE IF fault = 2 \/ BatchRejected(items) \/ DimensionMismatch(s[c].items, items)
    THEN RaiseE(GetOrCreate(s, c), <<"create">>)
  ELSE RetE([GetOrCreate(s, c) EXCEPT ![c].items = CollectionUpsert(@, items)],
            Null, <<"create", "done">>)

\* Mutant: delete looks at the filter before the id list.
delete_filter_first(s, c, ids, filter, fault) ==
  IF GetCollectionThrows(s, c, fault) THEN Raise(s)
  ELSE IF DOMAIN filter # {}
    THEN IF fault = 2 THEN Raise(s)
         ELSE Ret([s EXCEPT ![c].items =
                     Restrict(@, { i \in DOMAIN @ : ~Matches(@[i].metadata, filter) })],
                  Null)
  ELSE IF ids # {}
    THEN IF fault = 2 THEN Raise(s)
         ELSE Ret([s EXCEPT ![c].items = Restrict(@, DOMAIN @ \ ids)], Null)
  ELSE Ret(s, Null)

\* ids: the id list as a set, {} for None or []; filter: NoFilter for None or {}.
delete(s, c, ids, filter, fault) ==
  IF GetCollectionThrows(s, c, fault) THEN Raise(s)
  ELSE IF ids # {}
    THEN IF fault = 2 THEN Raise(s)
         ELSE Ret([s EXCEPT ![c].items = Restrict(@, DOMAIN @ \ ids)], Null)
  ELSE IF DOMAIN filter # {}
    THEN IF fault = 2 THEN Raise(s)
         ELSE Ret([s EXCEPT ![c].items =
                     Restrict(@, { i \in DOMAIN @ : ~Matches(@[i].metadata, filter) })],
                  Null)
  ELSE Ret(s, Null)

\* Mutant: delete_collection empties the collection and keeps its name.
delete_collection_keep_name(s, c, fault) ==
  IF fault = 1 \/ ~s[c].exists THEN Raise(s)
  ELSE RetE([s EXCEPT ![c].items = NoItems], Null, <<"drop">>)

\* client.delete_collection throws for a name that has no collection.
delete_collection(s, c, fault) ==
  IF fault = 1 \/ ~s[c].exists THEN Raise(s)
  ELSE RetE([s EXCEPT ![c] = NoCollection], Null, <<"drop">>)

reset(s, fault) ==
  IF fault = 1 THEN Raise(s) ELSE RetE(EmptyStore, Null, <<"reset">>)

\* ------------------------------------------------------------- history
NoHist == [created |-> {}, written |-> {}]

RECURSIVE ApplyEffects(_, _, _)
ApplyEffects(h, c, effects) ==
  IF effects = <<>> THEN h
  ELSE LET e == Head(effects)
           h1 == CASE e = "create" -> [h EXCEPT !.created = @ \cup {c}]
                   [] e = "done"   -> [h EXCEPT !.written = @ \cup {c}]
                   [] e = "drop"   -> [created |-> h.created \ {c},
                                       written |-> h.written \ {c}]
                   [] e = "reset"  -> NoHist
       IN ApplyEffects(h1, c, Tail(effects))

\* The arguments of a call, in one shape for every operation.
Args(c, items, ids, filter, vectors, limit, fault) ==
  [coll |-> c, items |-> items, ids |-> ids, filter |-> filter,
   vectors |-> vectors, limit |-> limit, fault |-> fault]

\* app.state as the application sets it at start, with the configuration
\* defaults: dense retrieval, no reranking model.
AppStart ==
  [ENABLE_RAG_HYBRID_SEARCH |-> FALSE, TOP_K |-> 3, RELEVANCE_THRESHOLD |-> 0,
   RAG_RERANKING_MODEL |-> "", rf |-> "None",
   RAG_EMBEDDING_ENGINE |-> "", RAG_EMBEDDING_MODEL |-> "m1", ef |-> "m1"]

\* The ingests under way at the same time, one per worker thread of the
\* server; none where the calls are made one after the other.
Workers == {1, 2}

NoIngest ==
  [pc |-> "idle", chunks |-> <<>>, metadata |-> << >>, calls |-> <<>>,
   outcome |-> "none", error |-> ""]

NoIngests == [w \in Workers |-> NoIngest]

NoCall ==
  [op |-> "none", args |-> Args("c1", <<>>, {}, NoFilter, <<>>, 0, 0),
   outcome |-> "ok", result |-> Null, calls |-> <<>>, error |-> "",
   pre |-> EmptyStore, pre_app |-> AppStart]

\* A call of operation `op` with arguments `a` that ended as `r` says.  Calls
\* are made one after the other: a call starts when the one before has
\* returned to its caller.
Call(op, a, ended) ==
  \E r \in {ended} :
    /\ store' = r.store
    /\ last' = [op |-> op, args |-> a, outcome |-> r.outcome, result |-> r.result,
                calls |-> r.calls, error |-> r.error, pre |-> store, pre_app |-> app]
    /\ hist' = ApplyEffects(hist, a.coll, r.effects)
    /\ app' = app
    /\ ingests' = ingests
    /\ UNCHANGED <<dotenv, config, config_json, Memories, CHROMA_CLIENT,
                   SESSION_POOL, USER_POOL, sio>>

RECURSIVE SeqsUpTo(_, _)
SeqsUpTo(S, n) ==
  IF n = 0 THEN { <<>> }
  ELSE LET shorter == SeqsUpTo(S, n - 1)
       IN shorter \cup { Append(q, x) : q \in { t \in shorter : Len(t) = n - 1 }, x \in S }

\* The item lists handed to insert and upsert: every list of ids (repeats
\* included) up to MaxItems long, with one payload for the items of a list.
ItemLists ==
  { [n \in DOMAIN ids |-> VectorItem(ids[n], p)] :
      ids \in SeqsUpTo(Ids, MaxItems), p \in Payloads }

Idle == last.op = "none"

\* ------------------------------------------------------------- VectorStore actions
HasCollection ==
  /\ Idle
  /\ \E c \in Colls, fault \in 0..1 :
       Call("has_collection", Args(c, <<>>, {}, NoFilter, <<>>, 0, fault),
            has_collection(store, c, fault))

Search ==
  /\ Idle
  /\ \E c \in Colls, vectors \in SeqsUpTo(QueryVectors, MaxQueries) \ {<<>>},
        limit \in 1..MaxLimit, fault \in 0..2 :
       Call("search", Args(c, <<>>, {}, NoFilter, vectors, limit, fault),
            search(store, c, vectors, limit, fault))

Query ==
  /\ Idle
  /\ \E c \in Colls, filter \in Filters, limit \in 0..MaxLimit, fault \in 0..2 :
       Call("query", Args(c, <<>>, {}, filter, <<>>, limit, fault),
            query(store, c, filter, limit, fault))

Get ==
  /\ Idle
  /\ \E c \in Colls, fault \in 0..2 :
       Call("get", Args(c, <<>>, {}, NoFilter, <<>>, 0, fault), get(store, c, fault))

Insert ==
  /\ Idle
  /\ \E c \in Colls, items \in ItemLists :
       \E fault \in 0..(1 + Len(create_batches(items))) :
         Call("insert", Args(c, items, {}, NoFilter, <<>>, 0, fault),
              insert(store, c, items, fault))

Upsert ==
  /\ Idle
  /\ \E c \in Colls, items \in ItemLists, fault \in 0..2 :
       Call("upsert", Args(c, items, {}, NoFilter, <<>>, 0, fault),
            upsert(store, c, items, fault))

Delete ==
  /\ Idle
  /\ \E c \in Colls, ids \in SUBSET Ids, filter \in Filters \cup {NoFilter},
        fault \in 0..2 :
       Call("delete", Args(c, <<>>, ids, filter, <<>>, 0, fault),
            delete(store, c, ids, filter, fault))

DeleteCollection ==
  /\ Idle
  /\ \E c \in Colls, fault \in 0..1 :
       Call("delete_collection", Args(c, <<>>, {}, NoFilter, <<>>, 0, fault),
            delete_collection(store, c, fault))

Reset ==
  /\ Idle
  /\ \E fault \in 0..1 :
       Call("reset", Args("c1", <<>>, {}, NoFilter, <<>>, 0, fault), reset(store, fault))

\* ------------------------------------------------------------- ingestion
MaxChunks == 2       \* most chunks the splitter yields for one ingest

\* The chunks of the documents, in order; an ingest gets the first n of them.
ChunkTexts == <<"a", "b", "a">>
ChunkLists == { Take(ChunkTexts, n) : n \in 0..MaxChunks }

\* request.app.state.config.TEXT_SPLITTER: "" and "character" select the
\* character splitter, "token" the token splitter, anything else is refused.
TextSplitters == {"", "token", "html"}

\* What the metadata argument can be: None, or a dict with the content hash.
Metadatas == {NoFilter} \cup { [hash |-> h] : h \in Hashes }

\* The embedding function: one vector per text.
Embed(text) ==
  CASE text = "a" -> <<1, 0>>
    [] text = "b" -> <<1, 1>>
    [] text = "c" -> <<0, 1>>
    [] text = "d" -> <<2, 1>>
    [] OTHER      -> <<1, 2>>

\* The embedding engines ("" is the local one) and models, and the length
\* of the vectors a model yields.
EmbeddingEngines == {"", "openai"}
EmbeddingModels == {"m1", "m2"}
ModelDim(model) == IF model = "m1" THEN 2 ELSE 3

\* get_ef: the local model, None when the engine is remote or the model
\* cannot be loaded.
get_ef(engine, embedding_model, fails) ==
  IF embedding_model # "" /\ engine = "" /\ ~fails THEN embedding_model ELSE "None"

\* get_embedding_function: the local engine encodes with app.state.ef, a
\* remote engine with the model the configuration names.
EmbeddingAvailable(a) == a.RAG_EMBEDDING_ENGINE # "" \/ a.ef # "None"

embedding_function(a, text) ==
  IF ModelDim(IF a.RAG_EMBEDDING_ENGINE = "" THEN a.ef ELSE a.RAG_EMBEDDING_MODEL) = 2
  THEN Embed(text)
  ELSE Embed(text) \o <<1>>

\* The embedding configuration written into every chunk's metadata.
EmbeddingConfig ==
  [engine |-> app.RAG_EMBEDDING_ENGINE, model |-> app.RAG_EMBEDDING_MODEL]

ChunkMetadata(metadata) ==
  IF "hash" \in DOMAIN metadata
  THEN [hash |-> metadata.hash, embedding_config |-> EmbeddingConfig]
  ELSE [embedding_config |-> EmbeddingConfig]

\* Mutant: the id of a chunk is its position in the list.
PositionIds(items, n) == [k \in 1..n |-> k]

\* str(uuid.uuid4()) per chunk: ids no item of the collection carries.  The
\* n smallest unused ids stand for them.
FreshIds(items, n) == Take(SetToSeq(Ids \ DOMAIN items), n)

IngestEnd(s, outcome, error, effects, calls) ==
  [store |-> s, outcome |-> outcome,
   result |-> IF outcome = "ok" THEN [isNull |-> FALSE, value |-> TRUE] ELSE Null,
   effects |-> effects, calls |-> calls, error |-> error]

CallRec(op, r) == [op |-> op, outcome |-> r.outcome]

\* Mutant: the try block without the `elif add is False: return True`.
IngestWriteAlways(s, c, chunks, metadata, overwrite, add, fault, calls0) ==
  LET h == has_collection(s, c, IF fault = 2 THEN 1 ELSE 0)
      calls1 == Append(calls0, CallRec("has_collection", h))
  IN IF h.outcome = "raised" THEN IngestEnd(s, "raised", "backend", <<>>, calls1)
     ELSE
     LET exists == h.result.value
         d == delete_collection(s, c, IF fault = 3 THEN 1 ELSE 0)
         dropped == exists /\ overwrite
         calls2 == IF dropped THEN Append(calls1, CallRec("delete_collection", d))
                   ELSE calls1
         s2 == IF dropped THEN d.store ELSE s
         e2 == IF dropped THEN d.effects ELSE <<>>
     IN IF dropped /\ d.outcome = "raised"
          THEN IngestEnd(s2, "raised", "backend", e2, calls2)
        ELSE IF fault = 4 \/ ~EmbeddingAvailable(app)
          THEN IngestEnd(s2, "raised", "embedding", e2,
                         Append(calls2, [op |-> "embed", outcome |-> "raised"]))
        ELSE
        LET calls3 == Append(calls2, [op |-> "embed", outcome |-> "ok"])
            ids == FreshIds(s2[c].items, Len(chunks))
            items == [n \in DOMAIN chunks |->
                        [id |-> ids[n], text |-> chunks[n],
                         vector |-> embedding_function(app, chunks[n]),
                         metadata |-> ChunkMetadata(metadata)]]
            w == insert(s2, c, items, IF fault >= 5 THEN fault - 4 ELSE 0)
            calls4 == Append(calls3, CallRec("insert", w))
        IN IF Len(ids) < Len(chunks)
             THEN IngestEnd(s2, "capped", "", e2, calls3)
           ELSE IngestEnd(w.store, w.outcome,
                          IF w.outcome = "raised" THEN "backend" ELSE "",
                          e2 \o w.effects, calls4)

\* Mutant: the items are written first and their vectors computed after.
IngestWriteThenEmbed(s, c, chunks, metadata, overwrite, add, fault, calls0) ==
  LET h == has_collection(s, c, IF fault = 2 THEN 1 ELSE 0)
      calls1 == Append(calls0, CallRec("has_collection", h))
  IN IF h.outcome = "raised" THEN IngestEnd(s, "raised", "backend", <<>>, calls1)
     ELSE
     LET exists == h.result.value
         d == delete_collection(s, c, IF fault = 3 THEN 1 ELSE 0)
         dropped == exists /\ overwrite
         calls2 == IF dropped THEN Append(calls1, CallRec("delete_collection", d))
                   ELSE calls1
         s2 == IF dropped THEN d.store ELSE s
         e2 == IF dropped THEN d.effects ELSE <<>>
     IN IF dropped /\ d.outcome = "raised"
          THEN IngestEnd(s2, "raised", "backend", e2, calls2)
        ELSE IF exists /\ ~overwrite /\ ~add
          THEN IngestEnd(s, "ok", "", <<>>, calls1)
        ELSE IF fault = 4 \/ ~EmbeddingAvailable(app)
          THEN LET ids == FreshIds(s2[c].items, Len(chunks))
                   items == [n \in DOMAIN chunks |->
                               [id |-> ids[n], text |-> chunks[n], vector |-> <<0, 0>>,
                                metadata |-> ChunkMetadata(metadata)]]
                   w == insert(s2, c, items, 0)
               IN IngestEnd(w.store, "raised", "embedding", e2 \o w.effects,
                            calls2 \o <<CallRec("insert", w),
                                        [op |-> "embed", outcome |-> "raised"]>>)
        ELSE
        LET calls3 == Append(calls2, [op |-> "embed", outcome |-> "ok"])
            ids == FreshIds(s2[c].items, Len(chunks))
            items == [n \in DOMAIN chunks |->
                        [id |-> ids[n], text |-> chunks[n],
                         vector |-> embedding_function(app, chunks[n]),
                         metadata |-> ChunkMetadata(metadata)]]
            w == insert(s2, c, items, IF fault >= 5 THEN fault - 4 ELSE 0)
            calls4 == Append(calls3, CallRec("insert", w))
        IN IF Len(ids) < Len(chunks)
             THEN IngestEnd(s2, "capped", "", e2, calls3)
           ELSE IngestEnd(w.store, w.outcome,
                          IF w.outcome = "raised" THEN "backend" ELSE "",
                          e2 \o w.effects, calls4)

\* Mutant: the collection is created before the vectors are computed.
IngestWriteCreatesFirst(s, c, chunks, metadata, overwrite, add, fault, calls0) ==
  LET h == has_collection(s, c, IF fault = 2 THEN 1 ELSE 0)
      calls1 == Append(calls0, CallRec("has_collection", h))
  IN IF h.outcome = "raised" THEN IngestEnd(s, "raised", "backend", <<>>, calls1)
     ELSE
     LET exists == h.result.value
         d == delete_collection(s, c, IF fault = 3 THEN 1 ELSE 0)
         dropped == exists /\ overwrite
         calls2 == IF dropped THEN Append(calls1, CallRec("delete_collection", d))
                   ELSE calls1
         s2 == IF dropped THEN d.store ELSE s
         e2 == IF dropped THEN d.effects ELSE <<>>
     IN IF dropped /\ d.outcome = "raised"
          THEN IngestEnd(s2, "raised", "backend", e2, calls2)
        ELSE IF exists /\ ~overwrite /\ ~add
          THEN IngestEnd(s, "ok", "", <<>>, calls1)
        ELSE IF fault = 4 \/ ~EmbeddingAvailable(app)
          THEN IngestEnd(GetOrCreate(s2, c), "raised", "embedding", e2 \o <<"create">>,
                         Append(calls2, [op |-> "embed", outcome |-> "raised"]))
        ELSE
        LET calls3 == Append(calls2, [op |-> "embed", outcome |-> "ok"])
            ids == FreshIds(s2[c].items, Len(chunks))
            items == [n \in DOMAIN chunks |->
                        [id |-> ids[n], text |-> chunks[n],
                         vector |-> embedding_function(app, chunks[n]),
                         metadata |-> ChunkMetadata(metadata)]]
            w == insert(s2, c, items, IF fault >= 5 THEN fault - 4 ELSE 0)
            calls4 == Append(calls3, CallRec("insert", w))
        IN IF Len(ids) < Len(chunks)
             THEN IngestEnd(s2, "capped", "", e2, calls3)
           ELSE IngestEnd(w.store, w.outcome,
                          IF w.outcome = "raised" THEN "backend" ELSE "",
                          e2 \o w.effects, calls4)

\* Lines 714-767: the try block.  fault 2: has_collection throws, 3:
\* delete_collection throws, 4: the embedding function throws, 5: insert's
\* get_or_create_collection throws, 5 + j: insert's add of batch j throws.
IngestWrite(s, c, chunks, metadata, overwrite, add, fault, calls0) ==
  LET h == has_collection(s, c, IF fault = 2 THEN 1 ELSE 0)
      calls1 == Append(calls0, CallRec("has_collection", h))
  IN IF h.outcome = "raised" THEN IngestEnd(s, "raised", "backend", <<>>, calls1)
     ELSE
     LET exists == h.result.value
         d == delete_collection(s, c, IF fault = 3 THEN 1 ELSE 0)
         dropped == exists /\ overwrite
         calls2 == IF dropped THEN Append(calls1, CallRec("delete_collection", d))
                   ELSE calls1
         s2 == IF dropped THEN d.store ELSE s
         e2 == IF dropped THEN d.effects ELSE <<>>
     IN IF dropped /\ d.outcome = "raised"
          THEN IngestEnd(s2, "raised", "backend", e2, calls2)
        ELSE IF exists /\ ~overwrite /\ ~add
          THEN IngestEnd(s, "ok", "", <<>>, calls1)
        ELSE IF fault = 4 \/ ~EmbeddingAvailable(app)
          THEN IngestEnd(s2, "raised", "embedding", e2,
                         Append(calls2, [op |-> "embed", outcome |-> "raised"]))
        ELSE
        LET calls3 == Append(calls2, [op |-> "embed", outcome |-> "ok"])
            ids == FreshIds(s2[c].items, Len(chunks))
            items == [n \in DOMAIN chunks |->
                        [id |-> ids[n], text |-> chunks[n],
                         vector |-> embedding_function(app, chunks[n]),
                         metadata |-> ChunkMetadata(metadata)]]
            w == insert(s2, c, items, IF fault >= 5 THEN fault - 4 ELSE 0)
            calls4 == Append(calls3, CallRec("insert", w))
        IN IF Len(ids) < Len(chunks)
             THEN IngestEnd(s2, "capped", "", e2, calls3)
           ELSE IngestEnd(w.store, w.outcome,
                          IF w.outcome = "raised" THEN "backend" ELSE "",
                          e2 \o w.effects, calls4)

\* Mutant: save_docs_to_vector_db without the check for an empty list.
save_docs_unchecked(s, c, chunks, metadata, overwrite, split, splitter, add, fault) ==
  LET lookup == "hash" \in DOMAIN metadata
      q == query(s, c, [hash |-> metadata.hash], 0, IF fault = 1 THEN 1 ELSE 0)
      calls0 == IF lookup THEN <<CallRec("query", q)>> ELSE <<>>
  IN IF lookup /\ q.outcome = "raised"
       THEN IngestEnd(s, "raised", "backend", <<>>, calls0)
     ELSE IF lookup /\ ~q.result.isNull /\ q.result.ids[1] # <<>>
       THEN IngestEnd(s, "raised", "DUPLICATE_CONTENT", <<>>, calls0)
     ELSE IF split /\ splitter \notin {"", "character", "token"}
       THEN IngestEnd(s, "raised", "Invalid text splitter", <<>>, calls0)
     ELSE IngestWrite(s, c, chunks, metadata, overwrite, add, fault, calls0)

\* save_docs_to_vector_db.  fault 1: the backend throws inside the hash
\* lookup (VectorStore.query).
save_docs_to_vector_db(s, c, chunks, metadata, overwrite, split, splitter, add, fault) ==
  LET lookup == "hash" \in DOMAIN metadata
      q == query(s, c, [hash |-> metadata.hash], 0, IF fault = 1 THEN 1 ELSE 0)
      calls0 == IF lookup THEN <<CallRec("query", q)>> ELSE <<>>
  IN IF lookup /\ q.outcome = "raised"
       THEN IngestEnd(s, "raised", "backend", <<>>, calls0)
     ELSE IF lookup /\ ~q.result.isNull /\ q.result.ids[1] # <<>>
       THEN IngestEnd(s, "raised", "DUPLICATE_CONTENT", <<>>, calls0)
     ELSE IF split /\ splitter \notin {"", "character", "token"}
       THEN IngestEnd(s, "raised", "Invalid text splitter", <<>>, calls0)
     ELSE IF Len(chunks) = 0
       THEN IngestEnd(s, "raised", "EMPTY_CONTENT", <<>>, calls0)
     ELSE IngestWrite(s, c, chunks, metadata, overwrite, add, fault, calls0)

\* The call has returned; its caller goes on to its next call.
Return ==
  /\ last.op # "none"
  /\ last' = NoCall
  /\ UNCHANGED <<store, hist, app, ingests,
                 dotenv, config, config_json, Memories, CHROMA_CLIENT,
                 SESSION_POOL, USER_POOL, sio>>

\* ------------------------------------------------------------- specification
Init ==
  /\ store = EmptyStore
  /\ last = NoCall
  /\ hist = NoHist
  /\ app = AppStart
  /\ ingests = NoIngests
  /\ dotenv = NoDotenv
  /\ config = ConfigStart
  /\ config_json = NoConfigJson
  /\ Memories = NoMemories
  /\ CHROMA_CLIENT = NoMemoryIndex
  /\ SESSION_POOL = NoSessions
  /\ USER_POOL = NoUsers
  /\ sio = NoSockets

Next ==
  \/ HasCollection
  \/ Search
  \/ Query
  \/ Get
  \/ Insert
  \/ Upsert
  \/ Delete
  \/ DeleteCollection
  \/ Reset
  \/ Return

Spec == Init /\ [][Next]_vars

\* The collections ingests are made into.
IngestColls == {"c1"}

IngestArgs(c, chunks, metadata, overwrite, split, splitter, add, fault) ==
  [coll |-> c, chunks |-> chunks, metadata |-> metadata, overwrite |-> overwrite,
   split |-> split, splitter |-> splitter, add |-> add, fault |-> fault]

\* A fault is listed when the call it names is made, that is when it changes
\* how the ingest goes; the splitter setting is listed when split is on.
Ingest ==
  /\ Idle
  /\ \E c \in IngestColls, chunks \in ChunkLists, metadata \in Metadatas,
        overwrite \in BOOLEAN, add \in BOOLEAN, split \in BOOLEAN,
        splitter \in TextSplitters :
       \E fault \in 0..(5 + Len(create_batches(chunks))) :
         \E r \in {save_docs_to_vector_db(store, c, chunks, metadata, overwrite,
                                           split, splitter, add, fault)} :
            /\ split \/ splitter = ""
            /\ r.outcome # "capped"
            /\ fault = 0 \/ r # save_docs_to_vector_db(store, c, chunks, metadata,
                                                       overwrite, split, splitter, add, 0)
            /\ Call("ingest",
                    IngestArgs(c, chunks, metadata, overwrite, split, splitter, add, fault),
                    r)

\* Ingestion runs against a store in which another collection is already
\* there (one item under hash "h2", written by an earlier insert).
OtherCollection ==
  [exists |-> TRUE,
   items |-> [i \in {1} |->
                [text |-> "b", vector |-> <<1, 1>>, metadata |-> [hash |-> "h2"]]]]

InitIngest ==
  /\ store = [c \in Colls |-> IF c \in IngestColls THEN NoCollection ELSE OtherCollection]
  /\ last = NoCall
  /\ hist = [created |-> Colls \ IngestColls, written |-> Colls \ IngestColls]
  /\ app = AppStart
  /\ ingests = NoIngests
  /\ dotenv = NoDotenv
  /\ config = ConfigStart
  /\ config_json = NoConfigJson
  /\ Memories = NoMemories
  /\ CHROMA_CLIENT = NoMemoryIndex
  /\ SESSION_POOL = NoSessions
  /\ USER_POOL = NoUsers
  /\ sio = NoSockets

NextIngest ==
  \/ Ingest
  \/ Delete
  \/ DeleteCollection
  \/ Reset
  \/ Return

SpecIngest == InitIngest /\ [][NextIngest]_vars

\* Ingests of two worker threads at the same time.  The endpoints that call
\* save_docs_to_vector_db are plain functions, which the server runs in its
\* thread pool, and nothing is held between the hash lookup and the insert:
\* a call is two steps, and the steps of two calls interleave.  Both calls
\* are made in add mode into the same collection, with a content hash, and
\* no backend call throws.

\* Lines 652-663: the hash lookup, against the store of that moment.
IngestLookup(w) ==
  /\ ingests[w].pc = "idle"
  /\ \E chunks \in ChunkLists \ {<<>>}, metadata \in Metadatas \ {NoFilter} :
       \E q \in {query(store, "c1", [hash |-> metadata.hash], 0, 0)} :
         ingests' =
           [ingests EXCEPT ![w] =
              IF ~q.result.isNull /\ q.result.ids[1] # <<>>
              THEN [pc |-> "done", chunks |-> chunks, metadata |-> metadata,
                    calls |-> <<CallRec("query", q)>>,
                    outcome |-> "raised", error |-> "DUPLICATE_CONTENT"]
              ELSE [pc |-> "looked", chunks |-> chunks, metadata |-> metadata,
                    calls |-> <<CallRec("query", q)>>,
                    outcome |-> "none", error |-> ""]]
  /\ UNCHANGED <<store, last, hist, app,
                 dotenv, config, config_json, Memories, CHROMA_CLIENT,
                 SESSION_POOL, USER_POOL, sio>>

\* Lines 665-767: the rest of the call, against the store of that moment.
IngestInsert(w) ==
  /\ ingests[w].pc = "looked"
  /\ \E r \in {IngestWrite(store, "c1", ingests[w].chunks, ingests[w].metadata,
                            FALSE, TRUE, 0, ingests[w].calls)} :
       /\ r.outcome # "capped"
       /\ store' = r.store
       /\ hist' = ApplyEffects(hist, "c1", r.effects)
       /\ ingests' = [ingests EXCEPT ![w].pc = "done", ![w].calls = r.calls,
                                     ![w].outcome = r.outcome, ![w].error = r.error]
  /\ UNCHANGED <<last, app,
                 dotenv, config, config_json, Memories, CHROMA_CLIENT,
                 SESSION_POOL, USER_POOL, sio>>

\* The call has returned or raised; the worker takes the next request.
IngestReturn(w) ==
  /\ ingests[w].pc = "done"
  /\ ingests' = [ingests EXCEPT ![w] = NoIngest]
  /\ UNCHANGED <<store, last, hist, app,
                 dotenv, config, config_json, Memories, CHROMA_CLIENT,
                 SESSION_POOL, USER_POOL, sio>>

NextConcurrent ==
  \/ \E w \in Workers : IngestLookup(w)
  \/ \E w \in Workers : IngestInsert(w)
  \/ \E w \in Workers : IngestReturn(w)

SpecConcurrent == InitIngest /\ [][NextConcurrent]_vars

\* ------------------------------------------------------------- endpoints
\* The files table: the content hash stored for a file id; "f3" is the id of
\* no file.
FileIds == {"f1", "f2", "f3"}

get_file_by_id(id) ==
  CASE id = "f1" -> [isNull |-> FALSE, hash |-> "h1"]
    [] id = "f2" -> [isNull |-> FALSE, hash |-> "h2"]
    [] OTHER     -> Null

\* def delete(self, collection_name, ids=None, filter=None): the names a
\* call can give its arguments by.
DeleteParameters == {"collection_name", "ids", "filter"}

\* A call of VectorStore.delete with keyword arguments: a keyword that is no
\* parameter of the method is a TypeError, raised before the method runs.
VectorDelete(s, kwargs, fault) ==
  IF ~(DOMAIN kwargs \subseteq DeleteParameters)
    THEN [Raise(s) EXCEPT !.error = "TypeError"]
  ELSE delete(s, kwargs.collection_name,
              IF "ids" \in DOMAIN kwargs THEN kwargs.ids ELSE {},
              IF "filter" \in DOMAIN kwargs THEN kwargs.filter ELSE NoFilter,
              fault)

StatusEnd(s, status, calls) ==
  [Ret(s, [isNull |-> FALSE, status |-> status]) EXCEPT !.calls = calls]

\* POST /delete.  Every exception is caught and answered with status false.
\* fault 1: has_collection throws; fault 2, 3: VectorStore.delete's
\* get_collection, collection.delete throws.
delete_entries_from_collection(s, c, file_id, fault) ==
  LET h == has_collection(s, c, IF fault = 1 THEN 1 ELSE 0)
      calls1 == <<CallRec("has_collection", h)>>
      file == get_file_by_id(file_id)
      d == VectorDelete(s, [collection_name |-> c, metadata |-> [hash |-> file.hash]],
                        IF fault >= 2 THEN fault - 1 ELSE 0)
      calls2 == Append(calls1, CallRec("delete", d))
  IN IF h.outcome = "raised" THEN StatusEnd(s, FALSE, calls1)
     ELSE IF ~h.result.value THEN StatusEnd(s, FALSE, calls1)
     ELSE IF file.isNull THEN StatusEnd(s, FALSE, calls1)
     ELSE IF d.outcome = "raised" THEN StatusEnd(d.store, FALSE, calls2)
     ELSE StatusEnd(d.store, TRUE, calls2)

DeleteEntries ==
  /\ Idle
  /\ \E c \in Colls, file_id \in FileIds, fault \in 0..3 :
       \E r \in {delete_entries_from_collection(store, c, file_id, fault)} :
         /\ fault = 0 \/ r # delete_entries_from_collection(store, c, file_id, 0)
         /\ Call("delete_entries_from_collection",
                 [coll |-> c, file_id |-> file_id, fault |-> fault], r)

\* The files of a batch: a FileModel with its content, or with data that
\* holds no dict (file.data is None).
FileModels == { [id |-> id, content |-> content] :
                  id \in {"f1", "f2"}, content \in {"a", "b", "None"} }

FileLists == { files \in SeqsUpTo(FileModels, 2) :
                 \A m, n \in DOMAIN files : files[m].id = files[n].id => m = n }

\* class BatchProcessFilesResult(BaseModel): file_id: str, status: str,
\* error: str | None = None.  A field without default that is not given
\* makes the constructor raise ValidationError.
BatchProcessFilesResult(fields) ==
  IF {"file_id", "status"} \subseteq DOMAIN fields
  THEN [valid |-> TRUE, file_id |-> fields.file_id, status |-> fields.status,
        error |-> IF "error" \in DOMAIN fields THEN fields.error ELSE "None"]
  ELSE [valid |-> FALSE, file_id |-> "", status |-> "", error |-> "ValidationError"]

BatchEnd(s, outcome, result, effects, calls, error) ==
  [store |-> s, outcome |-> outcome, result |-> result, effects |-> effects,
   calls |-> calls, error |-> error]

WithStatus(results, status) == [n \in DOMAIN results |-> [results[n] EXCEPT !.status = status]]

\* POST /process/files/batch.  fault is that of the one save_docs_to_vector_db
\* call (add=True, no hash in the metadata).
process_files_batch(s, files, c, fault) ==
  LET Prepared(file) == file.content # "None"
      ready == SelectSeq(files, Prepared)
      broken == SelectSeq(files, LAMBDA file : ~Prepared(file))
      results == [n \in DOMAIN ready |->
                    BatchProcessFilesResult([file_id |-> ready[n].id, status |-> "prepared"])]
      errors == [n \in DOMAIN broken |->
                   BatchProcessFilesResult([file_id |-> broken[n].id, status |-> "failed",
                                            error |-> "AttributeError"])]
      all_docs == [n \in DOMAIN ready |-> ready[n].content]
      saved == save_docs_to_vector_db(s, c, all_docs, NoFilter, FALSE, TRUE, "", TRUE, fault)
      calls == <<CallRec("save_docs_to_vector_db", saved)>>
      reported == [n \in DOMAIN results |->
                     BatchProcessFilesResult([file_id |-> results[n].file_id,
                                              error |-> saved.error])]
  IN IF all_docs = <<>>
       THEN BatchEnd(s, "ok", [isNull |-> FALSE, results |-> results, errors |-> errors],
                     <<>>, <<>>, "")
     ELSE IF saved.outcome = "capped"
       THEN BatchEnd(s, "capped", Null, <<>>, calls, "")
     ELSE IF saved.outcome = "ok"
       THEN BatchEnd(saved.store, "ok",
                     [isNull |-> FALSE, results |-> WithStatus(results, "completed"),
                      errors |-> errors],
                     saved.effects, calls, "")
     ELSE IF \E n \in DOMAIN reported : ~reported[n].valid
       THEN BatchEnd(saved.store, "raised", Null, saved.effects, calls, "ValidationError")
     ELSE BatchEnd(saved.store, "ok",
                   [isNull |-> FALSE, results |-> WithStatus(results, "failed"),
                    errors |-> errors \o reported],
                   saved.effects, calls, "")

ProcessFilesBatch ==
  /\ Idle
  /\ \E files \in FileLists, c \in IngestColls, fault \in 0..7 :
       \E r \in {process_files_batch(store, files, c, fault)} :
         /\ r.outcome # "capped"
         /\ fault = 0 \/ r # process_files_batch(store, files, c, 0)
         /\ Call("process_files_batch",
                 [coll |-> c, files |-> files, fault |-> fault], r)

\* The endpoints that write to and delete from the store.
NextEndpoints ==
  \/ Ingest
  \/ DeleteEntries
  \/ ProcessFilesBatch
  \/ Return

SpecEndpoints == InitIngest /\ [][NextEndpoints]_vars

\* ------------------------------------------------------------- retrieval
\* omni_webui/retrieval/utils.py (query_collection and
\* query_collection_with_hybrid_search, which the handler calls) is modelled
\* after section 4.5 of the specification: retrieve_one per collection, then
\* the CollectionMerger.

\* The reranking function: a score per (query, passage) pair, higher is better.
Score(query_text, text) ==
  IF query_text = "a"
  THEN CASE text = "a" -> 9 [] text = "b" -> 2 [] text = "c" -> 5 [] OTHER -> 7
  ELSE CASE text = "a" -> 1 [] text = "b" -> 8 [] text = "c" -> 6 [] OTHER -> 3

\* A ranked passage: its ranking key (the distance, or the rerank score), its
\* text and metadata; coll and id name the item it was made from.
Hit(c, i, key, document, metadata) ==
  [coll |-> c, id |-> i, key |-> key, document |-> document, metadata |-> metadata]

\* The shared ranking key: descending rerank score when a reranker ranks the
\* passages, else ascending distance.
RankingKey(reranking, rf) == IF reranking /\ rf # "None" THEN "score" ELSE "distance"

Better(mode, x, y) == IF mode = "score" THEN x.key > y.key ELSE x.key < y.key

\* A stable sort, best first.
InsertHit(mode, sorted, h) ==
  LET n == Cardinality({ m \in DOMAIN sorted : ~Better(mode, h, sorted[m]) })
  IN SubSeq(sorted, 1, n) \o <<h>> \o SubSeq(sorted, n + 1, Len(sorted))

RECURSIVE SortHits(_, _)
SortHits(mode, hits) ==
  IF hits = <<>> THEN <<>>
  ELSE TheOne({ InsertHit(mode, sorted, hits[Len(hits)]) :
                  sorted \in {SortHits(mode, SubSeq(hits, 1, Len(hits) - 1))} })

\* The candidate pool fetched when reranking is on: more than k.
LargeK(k) == 2 * k

\* retrieve_one, steps 1 to 4.  fault 2: the backend throws inside search,
\* which returns None; None is taken as no results.
Pool(c, found) ==
  IF found.isNull THEN <<>>
  ELSE [m \in DOMAIN found.ids[1] |->
          Hit(c, found.ids[1][m], found.distances[1][m],
              found.documents[1][m], found.metadatas[1][m])]

Rerank(query_text, pool, k, r) ==
  LET scored == [m \in DOMAIN pool |->
                   [pool[m] EXCEPT !.key = Score(query_text, pool[m].document)]]
  IN Take(SelectSeq(SortHits("score", scored), LAMBDA h : h.key >= r), k)

retrieve_one(s, c, query_text, k, reranking, rf, r, fault) ==
  TheOne({ IF RankingKey(reranking, rf) = "score"
           THEN Rerank(query_text, Pool(c, found), k, r)
           ELSE Take(Pool(c, found), k) :
             found \in {search(s, c, <<Embed(query_text)>>,
                                IF reranking THEN LargeK(k) ELSE k, fault).result} })

RECURSIVE Concat(_)
Concat(lists) == IF lists = <<>> THEN <<>> ELSE Head(lists) \o Concat(Tail(lists))

\* The CollectionMerger: concatenate, sort by the shared key, keep k.
CollectionMerger(mode, lists, k) ==
  TheOne({ Take(SortHits(mode, hits), k) : hits \in {Concat(lists)} })

\* retrieve_many; fault j + 1: the backend throws inside the search of the
\* j-th collection.
retrieve_many(s, names, query_text, k, reranking, rf, r, fault) ==
  CollectionMerger(RankingKey(reranking, rf),
                   [j \in DOMAIN names |->
                      retrieve_one(s, names[j], query_text, k, reranking, rf, r,
                                   IF fault = j + 1 THEN 2 ELSE 0)],
                   k)

query_collection(s, names, query_text, k, fault) ==
  retrieve_many(s, names, query_text, k, FALSE, "None", 0, fault)

query_collection_with_hybrid_search(s, names, query_text, k, rf, r, fault) ==
  retrieve_many(s, names, query_text, k, TRUE, rf, r, fault)

\* `form_data.k if form_data.k else config.TOP_K`, and the same for r: 0
\* stands for a field left out (None).
FormOr(given, configured) == IF given # 0 THEN given ELSE configured

\* The handler returns what the function it called (`callee`) returned.
RankedResult(s, callee, hits) ==
  [Ret(s, [isNull |-> FALSE, hits |-> hits])
     EXCEPT !.calls = <<[op |-> callee, outcome |-> "ok"]>>]

\* Mutant: the handler hands config.TOP_K on, whatever the form says.
query_collection_handler_top_k(s, a, names, query_text, k, r, fault) ==
  IF fault = 1 THEN [Raise(s) EXCEPT !.error = "HTTP 400"]
  ELSE IF a.ENABLE_RAG_HYBRID_SEARCH
    THEN RankedResult(s, "query_collection_with_hybrid_search",
                      query_collection_with_hybrid_search(
                           s, names, query_text, a.TOP_K, a.rf,
                           FormOr(r, a.RELEVANCE_THRESHOLD), fault))
  ELSE RankedResult(s, "query_collection",
                    query_collection(s, names, query_text, a.TOP_K, fault))

\* POST /query/collection.  fault 1: the embedding function throws; the
\* handler answers 400.
query_collection_handler(s, a, names, query_text, k, r, fault) ==
  IF fault = 1 THEN [Raise(s) EXCEPT !.error = "HTTP 400"]
  ELSE IF a.ENABLE_RAG_HYBRID_SEARCH
    THEN RankedResult(s, "query_collection_with_hybrid_search",
                      query_collection_with_hybrid_search(
                           s, names, query_text, FormOr(k, a.TOP_K), a.rf,
                           FormOr(r, a.RELEVANCE_THRESHOLD), fault))
  ELSE RankedResult(s, "query_collection",
                    query_collection(s, names, query_text, FormOr(k, a.TOP_K), fault))

\* query_doc and query_doc_with_hybrid_search: retrieve_one, dense and with
\* reranking.
query_doc(s, c, query_text, k, fault) ==
  retrieve_one(s, c, query_text, k, FALSE, "None", 0, fault)

query_doc_with_hybrid_search(s, c, query_text, k, rf, r, fault) ==
  retrieve_one(s, c, query_text, k, TRUE, rf, r, fault)

\* Mutant: the handler hands config.RELEVANCE_THRESHOLD on, whatever the
\* form says.
query_doc_handler_config_r(s, a, c, query_text, k, r, fault) ==
  IF fault = 1 THEN [Raise(s) EXCEPT !.error = "HTTP 400"]
  ELSE IF a.ENABLE_RAG_HYBRID_SEARCH
    THEN RankedResult(s, "query_doc_with_hybrid_search",
                      query_doc_with_hybrid_search(
                        s, c, query_text, FormOr(k, a.TOP_K), a.rf,
                        a.RELEVANCE_THRESHOLD, fault))
  ELSE RankedResult(s, "query_doc",
                    query_doc(s, c, query_text, FormOr(k, a.TOP_K), fault))

\* Mutant: the handler takes the hybrid path only with a reranker loaded.
query_doc_handler_needs_rf(s, a, c, query_text, k, r, fault) ==
  IF fault = 1 THEN [Raise(s) EXCEPT !.error = "HTTP 400"]
  ELSE IF a.ENABLE_RAG_HYBRID_SEARCH /\ a.rf # "None"
    THEN RankedResult(s, "query_doc_with_hybrid_search",
                      query_doc_with_hybrid_search(
                        s, c, query_text, FormOr(k, a.TOP_K), a.rf,
                        FormOr(r, a.RELEVANCE_THRESHOLD), fault))
  ELSE RankedResult(s, "query_doc",
                    query_doc(s, c, query_text, FormOr(k, a.TOP_K), fault))

\* POST /query/doc.  fault 1: the embedding function throws; fault 2: the
\* backend throws inside search.
query_doc_handler(s, a, c, query_text, k, r, fault) ==
  IF fault = 1 THEN [Raise(s) EXCEPT !.error = "HTTP 400"]
  ELSE IF a.ENABLE_RAG_HYBRID_SEARCH
    THEN RankedResult(s, "query_doc_with_hybrid_search",
                      query_doc_with_hybrid_search(
                        s, c, query_text, FormOr(k, a.TOP_K), a.rf,
                        FormOr(r, a.RELEVANCE_THRESHOLD), fault))
  ELSE RankedResult(s, "query_doc",
                    query_doc(s, c, query_text, FormOr(k, a.TOP_K), fault))

\* The query strings, the lists of collection names (no name twice) and the
\* relevance thresholds of the forms.
Queries == {"a", "q"}
NameLists == { names \in SeqsUpTo(Colls, 2) : Cardinality(Range(names)) = Len(names) }
Thresholds == {0, 4}

QueryArgs(names, query_text, k, r, fault) ==
  [coll |-> "c1", collection_names |-> names, query |-> query_text, k |-> k, r |-> r,
   fault |-> fault]

QueryCollection ==
  /\ Idle
  /\ \E names \in NameLists, query_text \in Queries, k \in 0..MaxLimit, r \in Thresholds :
       \E fault \in 0..(1 + Len(names)) :
         /\ r = 0 \/ app.ENABLE_RAG_HYBRID_SEARCH
         /\ Call("query_collection", QueryArgs(names, query_text, k, r, fault),
                 query_collection_handler(store, app, names, query_text, k, r, fault))

QueryDocArgs(c, query_text, k, r, fault) ==
  [coll |-> c, query |-> query_text, k |-> k, r |-> r, fault |-> fault]

QueryDoc ==
  /\ Idle
  /\ \E c \in Colls, query_text \in Queries, k \in 0..MaxLimit, r \in Thresholds,
        fault \in 0..2 :
       /\ r = 0 \/ app.ENABLE_RAG_HYBRID_SEARCH
       /\ Call("query_doc", QueryDocArgs(c, query_text, k, r, fault),
               query_doc_handler(store, app, c, query_text, k, r, fault))

\* The stores retrieval runs against.  An item carries the vector the
\* embedding function gives its text.
Stored(text) == [text |-> text, vector |-> Embed(text), metadata |-> [hash |-> "h1"]]

Collection(items) == [exists |-> TRUE, items |-> items]

StoredCollections ==
  {NoCollection}
    \cup { Collection(items) :
             items \in UNION { [1..n -> { Stored(t) : t \in {"a", "b", "c"} }] :
                                 n \in 0..3 } }

OtherCollections ==
  { NoCollection,
    Collection([i \in {1} |-> Stored("d")]),
    Collection([i \in {1, 2} |-> IF i = 1 THEN Stored("b") ELSE Stored("d")]) }

AppStates ==
  { [AppStart EXCEPT !.ENABLE_RAG_HYBRID_SEARCH = hybrid, !.rf = rf,
                     !.RAG_RERANKING_MODEL = IF rf = "None" THEN "" ELSE rf] :
      hybrid \in BOOLEAN, rf \in {"None", "CrossEncoder"} }

InitRetrieve ==
  /\ store \in { [c \in Colls |-> IF c = "c1" THEN x ELSE y] :
                   x \in StoredCollections, y \in OtherCollections }
  /\ last = NoCall
  /\ hist = [created |-> { c \in Colls : store[c].exists },
             written |-> { c \in Colls : store[c].exists }]
  /\ app \in AppStates
  /\ ingests = NoIngests
  /\ dotenv = NoDotenv
  /\ config = ConfigStart
  /\ config_json = NoConfigJson
  /\ Memories = NoMemories
  /\ CHROMA_CLIENT = NoMemoryIndex
  /\ SESSION_POOL = NoSessions
  /\ USER_POOL = NoUsers
  /\ sio = NoSockets

NextRetrieve ==
  \/ Search
  \/ QueryDoc
  \/ QueryCollection
  \/ Return

SpecRetrieve == InitRetrieve /\ [][NextRetrieve]_vars

\* ------------------------------------------------------------- configuration
\* The reranking models an update can name: "" for none, else a model of
\* either class get_rf knows.
RerankingModels == {"", "CrossEncoder", "ColBERT"}

\* get_rf: None for no model, else the loaded model; loading can raise.
get_rf(reranking_model, fails) ==
  IF reranking_model = "" THEN [raised |-> FALSE, rf |-> "None"]
  ELSE IF fails THEN [raised |-> TRUE, rf |-> "None"]
  ELSE [raised |-> FALSE, rf |-> reranking_model]

ConfigEnd(a, result) ==
  [app |-> a, outcome |-> "ok", result |-> result, calls |-> <<>>, error |-> ""]

\* Mutant: a load that fails is logged and nothing else.
update_reranking_config_logs(a, reranking_model, fails) ==
  LET a1 == [a EXCEPT !.RAG_RERANKING_MODEL = reranking_model]
      g == get_rf(reranking_model, fails)
      answer == [isNull |-> FALSE, status |-> TRUE, reranking_model |-> reranking_model]
  IN IF g.raised THEN ConfigEnd(a1, answer)
     ELSE ConfigEnd([a1 EXCEPT !.rf = g.rf], answer)

\* POST /reranking/update.  When get_rf raises, app.state.rf keeps what it
\* held and hybrid search is switched off.
update_reranking_config(a, reranking_model, fails) ==
  LET a1 == [a EXCEPT !.RAG_RERANKING_MODEL = reranking_model]
      g == get_rf(reranking_model, fails)
      answer == [isNull |-> FALSE, status |-> TRUE, reranking_model |-> reranking_model]
  IN IF g.raised THEN ConfigEnd([a1 EXCEPT !.ENABLE_RAG_HYBRID_SEARCH = FALSE], answer)
     ELSE ConfigEnd([a1 EXCEPT !.rf = g.rf], answer)

\* POST /query/settings/update; k = 0, r = 0 and hybrid = FALSE also stand
\* for a field left out.
update_query_settings(a, k, r, hybrid) ==
  LET a1 == [a EXCEPT !.TOP_K = FormOr(k, 4),
                      !.RELEVANCE_THRESHOLD = FormOr(r, 0),
                      !.ENABLE_RAG_HYBRID_SEARCH = IF hybrid THEN hybrid ELSE FALSE]
  IN ConfigEnd(a1, [isNull |-> FALSE, status |-> TRUE, k |-> a1.TOP_K,
                    r |-> a1.RELEVANCE_THRESHOLD, hybrid |-> a1.ENABLE_RAG_HYBRID_SEARCH])

\* A call that changes app.state and leaves the vector store alone.
ConfigCall(op, a, ended) ==
  \E r \in {ended} :
    /\ app' = r.app
    /\ last' = [op |-> op, args |-> a, outcome |-> r.outcome, result |-> r.result,
                calls |-> r.calls, error |-> r.error, pre |-> store, pre_app |-> app]
    /\ UNCHANGED <<store, hist, ingests,
                   dotenv, config, config_json, Memories, CHROMA_CLIENT,
                   SESSION_POOL, USER_POOL, sio>>

UpdateRerankingConfig ==
  /\ Idle
  /\ \E reranking_model \in RerankingModels, fails \in BOOLEAN :
       /\ fails => reranking_model # ""
       /\ ConfigCall("update_reranking_config",
                     [coll |-> "c1", reranking_model |-> reranking_model, fails |-> fails],
                     update_reranking_config(app, reranking_model, fails))

UpdateQuerySettings ==
  /\ Idle
  /\ \E k \in 0..MaxLimit, r \in Thresholds, hybrid \in BOOLEAN :
       ConfigCall("update_query_settings",
                  [coll |-> "c1", k |-> k, r |-> r, hybrid |-> hybrid],
                  update_query_settings(app, k, r, hybrid))

\* The store the configured application answers queries from.
ConfigStore ==
  [c \in Colls |->
     IF c = "c1"
     THEN Collection([i \in 1..3 |-> Stored(<<"a", "b", "c">>[i])])
     ELSE Collection([i \in 1..2 |-> Stored(<<"b", "d">>[i])])]

InitConfig ==
  /\ store = ConfigStore
  /\ last = NoCall
  /\ hist = [created |-> Colls, written |-> Colls]
  /\ app = AppStart
  /\ ingests = NoIngests
  /\ dotenv = NoDotenv
  /\ config = ConfigStart
  /\ config_json = NoConfigJson
  /\ Memories = NoMemories
  /\ CHROMA_CLIENT = NoMemoryIndex
  /\ SESSION_POOL = NoSessions
  /\ USER_POOL = NoUsers
  /\ sio = NoSockets

NextConfig ==
  \/ UpdateRerankingConfig
  \/ UpdateQuerySettings
  \/ QueryDoc
  \/ QueryCollection
  \/ Return

SpecConfig == InitConfig /\ [][NextConfig]_vars

\* POST /embedding/update: the engine and the model are written to the
\* configuration, then app.state.ef is loaded anew (None when the load fails
\* or the engine is remote) and the embedding function built from them.
update_embedding_config(a, embedding_engine, embedding_model, fails) ==
  ConfigEnd([a EXCEPT !.RAG_EMBEDDING_ENGINE = embedding_engine,
                      !.RAG_EMBEDDING_MODEL = embedding_model,
                      !.ef = get_ef(embedding_engine, embedding_model, fails)],
            [isNull |-> FALSE, status |-> TRUE,
             embedding_engine |-> embedding_engine,
             embedding_model |-> embedding_model])

UpdateEmbeddingConfig ==
  /\ Idle
  /\ \E embedding_engine \in EmbeddingEngines, embedding_model \in EmbeddingModels,
        fails \in BOOLEAN :
       /\ fails => embedding_engine = ""
       /\ ConfigCall("update_embedding_config",
                     [coll |-> "c1", embedding_engine |-> embedding_engine,
                      embedding_model |-> embedding_model, fails |-> fails],
                     update_embedding_config(app, embedding_engine, embedding_model, fails))

\* Ingests, with the embedding configuration changed in between.
NextEmbedding ==
  \/ Ingest
  \/ UpdateEmbeddingConfig
  \/ Return

SpecEmbedding == InitIngest /\ [][NextEmbedding]_vars

\* ------------------------------------------------------------- late-interaction scorer
\* A tensor: its sizes along each dimension and its entries, nested in the
\* same order.
Tensor(size, data) == [size |-> size, data |-> data]
Dim(t) == Len(t.size)

\* float32 values between 0 and 1 are kept as multiples of 2^-24, the
\* precision float32 has just below 1 (and exceeds below 1/2).
One == 2^24

\* exp(-d) for d = 0, 1, ..., rounded to a multiple of 2^-24; 0 from d = 18 on.
ExpTable ==
  <<16777216, 6171993, 2270549, 835288, 307285, 113044, 41587, 15299, 5628,
    2070, 762, 280, 103, 38, 14, 5, 2, 1>>
ExpNeg(d) == IF d < Len(ExpTable) THEN ExpTable[d + 1] ELSE 0

RECURSIVE SumSeq(_)
SumSeq(xs) == IF xs = <<>> THEN 0 ELSE Head(xs) + SumSeq(Tail(xs))

MaxOf(S) == CHOOSE x \in S : \A y \in S : x >= y

\* floor(num * 2^bits / den) by long division, one bit at a time.
RECURSIVE ScaledQuotient(_, _, _, _)
ScaledQuotient(q, r, den, bits) ==
  IF bits = 0 THEN q
  ELSE IF 2 * r >= den THEN ScaledQuotient(2 * q + 1, 2 * r - den, den, bits - 1)
  ELSE ScaledQuotient(2 * q, 2 * r, den, bits - 1)

\* num / den rounded to the nearest multiple of 2^-24.
Quotient(num, den) ==
  (ScaledQuotient(num \div den, num % den, den, 25) + 1) \div 2

\* Mutant: the exponentials are returned as they are, not divided by their sum.
softmax_exp_only(xs) ==
  IF xs = <<>> THEN <<>>
  ELSE [i \in DOMAIN xs |-> ExpNeg(MaxOf(Range(xs)) - xs[i])]

\* torch.softmax(final_scores, dim=0): exp(x - max) over the sum of these.
softmax(xs) ==
  IF xs = <<>> THEN <<>>
  ELSE LET e == [i \in DOMAIN xs |-> ExpNeg(MaxOf(Range(xs)) - xs[i])]
       IN TheOne({ [i \in DOMAIN xs |-> Quotient(e[i], total)] : total \in {SumSeq(e)} })

ScoresEnd(outcome, scores, error) ==
  [outcome |-> outcome, scores |-> scores, error |-> error]

\* Mutant: the comparison of the batch sizes is left out, and torch.matmul
\* broadcasts what it can.
calculate_similarity_scores_any_batch(query_embeddings, document_embeddings) ==
  IF Dim(query_embeddings) # 3 THEN ScoresEnd("raised", <<>>, "ValueError")
  ELSE IF Dim(document_embeddings) # 3 THEN ScoresEnd("raised", <<>>, "ValueError")
  ELSE IF query_embeddings.size[3] # document_embeddings.size[3]
    THEN ScoresEnd("raised", <<>>, "RuntimeError")
  ELSE IF /\ query_embeddings.size[1] \notin {1, document_embeddings.size[1]}
          /\ document_embeddings.size[1] # 1
    THEN ScoresEnd("raised", <<>>, "RuntimeError")
  ELSE IF document_embeddings.size[2] = 0
    THEN ScoresEnd("raised", <<>>, "IndexError")
  ELSE
  LET q == query_embeddings.data
      d == document_embeddings.data
      batch == IF document_embeddings.size[1] = 1 THEN DOMAIN q ELSE DOMAIN d
      final_scores ==
        [i \in batch |->
           SumSeq([tq \in DOMAIN q[1] |->
                     MaxOf({ Dot(d[IF document_embeddings.size[1] = 1 THEN 1 ELSE i][td],
                                 q[IF query_embeddings.size[1] = 1 THEN 1 ELSE i][tq]) :
                               td \in 1..document_embeddings.size[2] })])]
  IN ScoresEnd("ok", softmax(final_scores), "")

\* calculate_similarity_scores.  After the three checks: torch.matmul raises
\* RuntimeError when the feature sizes differ, torch.max raises IndexError
\* over a document axis of size 0.
calculate_similarity_scores(query_embeddings, document_embeddings) ==
  IF Dim(query_embeddings) # 3 THEN ScoresEnd("raised", <<>>, "ValueError")
  ELSE IF Dim(document_embeddings) # 3 THEN ScoresEnd("raised", <<>>, "ValueError")
  ELSE IF query_embeddings.size[1] \notin {1, document_embeddings.size[1]}
    THEN ScoresEnd("raised", <<>>, "ValueError")
  ELSE IF query_embeddings.size[3] # document_embeddings.size[3]
    THEN ScoresEnd("raised", <<>>, "RuntimeError")
  ELSE IF document_embeddings.size[2] = 0
    THEN ScoresEnd("raised", <<>>, "IndexError")
  ELSE
  LET q == query_embeddings.data
      d == document_embeddings.data
      \* computed_scores[i][td][tq], with the one query broadcast over the documents
      computed_scores ==
        [i \in DOMAIN d |->
           [td \in DOMAIN d[i] |->
              [tq \in DOMAIN q[1] |->
                 Dot(d[i][td], q[IF query_embeddings.size[1] = 1 THEN 1 ELSE i][tq])]]]
      maximum_scores ==
        [i \in DOMAIN d |->
           [tq \in DOMAIN q[1] |->
              MaxOf({ computed_scores[i][td][tq] : td \in DOMAIN d[i] })]]
      final_scores == [i \in DOMAIN d |-> SumSeq(maximum_scores[i])]
  IN ScoresEnd("ok", softmax(final_scores), "")

\* The checkpoint's encoders: two tokens of two features per text, the
\* documents batched into one tensor.
TokenEmbeddings(text) ==
  CASE text = "a" -> <<<<1, 1>>, <<1, -1>>>>
    [] text = "b" -> <<<<1, -1>>, <<-1, -1>>>>
    [] text = "c" -> <<<<-1, 1>>, <<-1, 1>>>>
    [] OTHER      -> <<<<-1, -1>>, <<1, 1>>>>

docFromText(docs) ==
  Tensor(<<Len(docs), 2, 2>>, [i \in DOMAIN docs |-> TokenEmbeddings(docs[i])])

\* predict: the query of the first pair against the documents of all pairs.
predict(sentences) ==
  IF sentences = <<>> THEN ScoresEnd("raised", <<>>, "IndexError")
  ELSE LET docs == [i \in DOMAIN sentences |-> sentences[i][2]]
           embedded_query == TokenEmbeddings(sentences[1][1])
       IN calculate_similarity_scores(Tensor(<<1, 2, 2>>, <<embedded_query>>),
                                      docFromText(docs))

\* The tensors handed to calculate_similarity_scores.
Elems == {-1, 1}
Matrices(t, d) == [1..t -> [1..d -> Elems]]
TokenCounts == 1..2
FeatureSizes == 1..2

\* Query tensors: one matrix, alone or repeated along the batch axis; and one
\* tensor each of rank 2 and rank 4.
QueryTensors ==
  UNION { { Tensor(<<b, t, d>>, [i \in 1..b |-> m]) : b \in 1..3, m \in Matrices(t, d) } :
            t \in TokenCounts, d \in FeatureSizes }
    \cup { Tensor(<<2, 2>>, <<<<1, 1>>, <<1, -1>>>>),
           Tensor(<<1, 1, 2, 2>>, <<<<<<<<1, 1>>, <<1, -1>>>>>>>>) }

\* Document tensors: up to two documents of the same number of tokens, a
\* document without tokens, and one tensor each of rank 2 and rank 4.
DocumentTensors ==
  UNION { { Tensor(<<n, t, d>>, docs) : docs \in [1..n -> Matrices(t, d)] } :
            n \in 0..2, t \in TokenCounts, d \in FeatureSizes }
    \cup { Tensor(<<1, 0, d>>, <<<<>>>>) : d \in FeatureSizes }
    \cup { Tensor(<<2, 2>>, <<<<1, 1>>, <<1, -1>>>>),
           Tensor(<<1, 1, 2, 2>>, <<<<<<<<1, 1>>, <<1, -1>>>>>>>>) }

\* The (query, document) pairs handed to predict.
Sentences == SeqsUpTo({"a", "q"} \X {"a", "b", "c"}, 3)

\* A call of the scorer; the vector store is not involved.
ScorerCall(op, a, ended) ==
  Call(op, a, [store |-> store, outcome |-> ended.outcome,
               result |-> IF ended.outcome = "ok"
                          THEN [isNull |-> FALSE, scores |-> ended.scores]
                          ELSE Null,
               effects |-> <<>>, calls |-> <<>>, error |-> ended.error])

CalculateSimilarityScores ==
  /\ Idle
  /\ \E query_embeddings \in QueryTensors, document_embeddings \in DocumentTensors :
       ScorerCall("calculate_similarity_scores",
                  [coll |-> "c1", query_embeddings |-> query_embeddings,
                   document_embeddings |-> document_embeddings],
                  calculate_similarity_scores(query_embeddings, document_embeddings))

Predict ==
  /\ Idle
  /\ \E sentences \in Sentences :
       ScorerCall("predict", [coll |-> "c1", sentences |-> sentences],
                  predict(sentences))

NextScore ==
  \/ CalculateSimilarityScores
  \/ Predict
  \/ Return

SpecScore == Init /\ [][NextScore]_vars

\* ------------------------------------------------------------- parse_duration
\* A string is the sequence of its characters.
Digits == {"0", "1", "2", "3", "4", "5", "6", "7", "8", "9"}

DigitValue(ch) ==
  CASE ch = "0" -> 0 [] ch = "1" -> 1 [] ch = "2" -> 2 [] ch = "3" -> 3 [] ch = "4" -> 4
    [] ch = "5" -> 5 [] ch = "6" -> 6 [] ch = "7" -> 7 [] ch = "8" -> 8 [] OTHER -> 9

\* The groups of the pattern, in its order; the unit of a group is the first
\* letter of its name, "ms" for the milliseconds.
UnitNames == <<"weeks", "days", "hours", "minutes", "seconds", "milliseconds">>

\* Mutant: the unit of the milliseconds is the first letter of the name too.
UnitFirstLetter(name) ==
  CASE name = "weeks" -> <<"w">> [] name = "days" -> <<"d">> [] name = "hours" -> <<"h">>
    [] name = "minutes" -> <<"m">> [] name = "seconds" -> <<"s">> [] OTHER -> <<"m">>

UnitLetters(name) ==
  CASE name = "weeks" -> <<"w">> [] name = "days" -> <<"d">> [] name = "hours" -> <<"h">>
    [] name = "minutes" -> <<"m">> [] name = "seconds" -> <<"s">> [] OTHER -> <<"m", "s">>

\* The first position from pos on that holds no digit.
RECURSIVE DigitsEnd(_, _)
DigitsEnd(chars, pos) ==
  IF pos <= Len(chars) /\ chars[pos] \in Digits THEN DigitsEnd(chars, pos + 1) ELSE pos

\* -?\d+(?:\.\d+)? at pos: the position after the number, 0 when there is
\* none.  What follows a number in the pattern is a letter, so the longest
\* number is the only one that can be part of a match.
NumberEnd(chars, pos) ==
  LET start == IF pos <= Len(chars) /\ chars[pos] = "-" THEN pos + 1 ELSE pos
      whole == DigitsEnd(chars, start)
      frac == DigitsEnd(chars, whole + 1)
  IN IF whole = start THEN 0
     ELSE IF whole <= Len(chars) /\ chars[whole] = "." /\ frac > whole + 1 THEN frac
     ELSE whole

StartsWith(chars, pos, letters) ==
  /\ pos + Len(letters) - 1 <= Len(chars)
  /\ SubSeq(chars, pos, pos + Len(letters) - 1) = letters

NoMatch == [matched |-> FALSE, groups |-> << >>]

\* re.match of the groups g.. of the pattern and the closing $ against the
\* string from pos on: a group is tried first with its number and unit, then
\* left out.  groups: name -> the text of its number.
RECURSIVE MatchGroups(_, _, _)
MatchGroups(chars, pos, g) ==
  IF g > Len(UnitNames)
    THEN IF pos = Len(chars) + 1 THEN [matched |-> TRUE, groups |-> << >>] ELSE NoMatch
  ELSE
  LET stop == NumberEnd(chars, pos)
      letters == UnitLetters(UnitNames[g])
      taken == IF stop # 0 /\ StartsWith(chars, stop, letters)
               THEN MatchGroups(chars, stop + Len(letters), g + 1)
               ELSE NoMatch
  IN IF taken.matched
       THEN [matched |-> TRUE,
             groups |-> [n \in DOMAIN taken.groups \cup {UnitNames[g]} |->
                           IF n = UnitNames[g] THEN SubSeq(chars, pos, stop - 1)
                           ELSE taken.groups[n]]]
     ELSE MatchGroups(chars, pos, g + 1)

\* float(value), in thousandths: the inputs have at most three digits after
\* the point.
RECURSIVE DigitsValue(_)
DigitsValue(digits) ==
  IF digits = <<>> THEN 0
  ELSE 10 * DigitsValue(SubSeq(digits, 1, Len(digits) - 1)) + DigitValue(digits[Len(digits)])

Thousandths(text) ==
  LET negative == text[1] = "-"
      body == IF negative THEN Tail(text) ELSE text
      whole == DigitsEnd(body, 1)
      frac == SubSeq(body, whole + 1, Len(body))
      padded == frac \o SubSeq(<<"0", "0", "0">>, 1, 3 - Len(frac))
      magnitude == 1000 * DigitsValue(SubSeq(body, 1, whole - 1)) + DigitsValue(padded)
  IN IF negative THEN 0 - magnitude ELSE magnitude

\* timedelta: days, seconds and microseconds, with 0 <= seconds < 86400 and
\* 0 <= microseconds < 1000000.
Normalised(days, seconds, microseconds) ==
  LET s1 == seconds + microseconds \div 1000000
  IN [days |-> days + s1 \div 86400, seconds |-> s1 % 86400,
      microseconds |-> microseconds % 1000000]

SecondsOf(name) ==
  CASE name = "weeks" -> 604800 [] name = "days" -> 86400 [] name = "hours" -> 3600
    [] name = "minutes" -> 60 [] OTHER -> 1

\* The timedelta of one keyword argument, its value in thousandths.
Component(name, thousandths) ==
  IF name = "milliseconds" THEN Normalised(0, 0, thousandths)
  ELSE Normalised(0, (thousandths \div 1000) * SecondsOf(name)
                       + ((thousandths % 1000) * SecondsOf(name)) \div 1000,
                  (((thousandths % 1000) * SecondsOf(name)) % 1000) * 1000)

Plus(x, y) ==
  Normalised(x.days + y.days, x.seconds + y.seconds, x.microseconds + y.microseconds)

RECURSIVE SumComponents(_, _)
SumComponents(groups, names) ==
  IF names = {} THEN Normalised(0, 0, 0)
  ELSE LET n == CHOOSE x \in names : TRUE
       IN Plus(Component(n, Thousandths(groups[n])), SumComponents(groups, names \ {n}))

timedelta(groups) == SumComponents(groups, DOMAIN groups)

DurationEnd(outcome, value, error) ==
  [outcome |-> outcome, value |-> value, error |-> error]

parse_duration(duration) ==
  IF duration = <<"-", "1">> \/ duration = <<"0">>
    THEN DurationEnd("ok", [isNull |-> TRUE], "")
  ELSE LET mo == MatchGroups(duration, 1, 1)
       IN IF ~mo.matched THEN DurationEnd("raised", Null, "ValueError")
          ELSE DurationEnd("ok", [isNull |-> FALSE, timedelta |-> timedelta(mo.groups)], "")

\* The duration strings: the numbers and units of up to three components, in
\* any order, written one after the other; "-1", "0" and strings that are no
\* chain of components.
Numbers == { <<"1">>, <<"2", "0">>, <<"-", "3">>, <<"1", ".", "5">> }
Parts == [number : Numbers, unit : Range(UnitNames)]
PartLists == SeqsUpTo(Parts, 3)

Suffix(unit) ==
  CASE unit = "weeks" -> <<"w">> [] unit = "days" -> <<"d">> [] unit = "hours" -> <<"h">>
    [] unit = "minutes" -> <<"m">> [] unit = "seconds" -> <<"s">> [] OTHER -> <<"m", "s">>

RECURSIVE Written(_)
Written(parts) ==
  IF parts = <<>> THEN <<>>
  ELSE Head(parts).number \o Suffix(Head(parts).unit) \o Written(Tail(parts))

OtherDurations ==
  { <<"-", "1">>, <<"0">>, <<"1">>, <<"d">>, <<"1", ".", "d">>, <<"1", "d", " ">>,
    <<"-", "1", "0">>, <<"0", "0">> }

ParseDuration ==
  /\ Idle
  /\ \E parts \in PartLists, other \in OtherDurations \cup {<<>>} :
       /\ parts = <<>> \/ other = <<>>
       /\ \E duration \in {IF other = <<>> THEN Written(parts) ELSE other} :
            \E r \in {parse_duration(duration)} :
              Call("parse_duration",
                   [coll |-> "c1", parts |-> parts, duration |-> duration],
                   [store |-> store, outcome |-> r.outcome, result |-> r.value,
                    effects |-> <<>>, calls |-> <<>>, error |-> r.error])

NextUtils ==
  \/ ParseDuration
  \/ Return

SpecUtils == Init /\ [][NextUtils]_vars

\* ------------------------------------------------------------- save_secret_key
\* A call on the state outside the vector store: what was asked and how it
\* ended.
HostCall(op, a, ended) ==
  /\ last' = [op |-> op, args |-> a, outcome |-> ended.outcome, result |-> Null,
              calls |-> <<>>, error |-> ended.error, pre |-> store, pre_app |-> app]
  /\ UNCHANGED <<store, hist, app, ingests>>

Ok == [outcome |-> "ok", error |-> ""]
Raised(e) == [outcome |-> "raised", error |-> e]

\* The text of a dotenv file is a sequence of pieces: a line break, the
\* variable's name with its equals sign, a key, or other text that has no
\* line break and does not start with the variable's name.
LineBreak == "\n"
KeyName == "OMNI_WEBUI_SECRET_KEY="
SecretKeys == {"k1", "k2"}
OtherText == "DEBUG=1"

\* The longest file a call may write.
MaxContent == 16

\* re.match(r"^OMNI_WEBUI_SECRET_KEY=", content, re.MULTILINE): re.match tries
\* the pattern at position 0 of the string only, whatever the flags.
re_match(content) ==
  /\ Len(content) > 0
  /\ content[1] = KeyName

\* Lines 20-27.
save_secret_key(secret_key, file) ==
  LET content == IF file.exists THEN file.content ELSE <<>>
  IN IF ~re_match(content)
     THEN [exists |-> TRUE,
           content |-> content \o <<LineBreak, KeyName, secret_key, LineBreak>>]
     ELSE file

\* The files the function may meet: none, an empty one, one with other
\* settings, one with the key on its first line, one with the key on a later
\* line.
DotenvFiles ==
  { NoDotenv,
    [exists |-> TRUE, content |-> <<>>],
    [exists |-> TRUE, content |-> <<OtherText, LineBreak>>],
    [exists |-> TRUE, content |-> <<OtherText>>],
    [exists |-> TRUE, content |-> <<KeyName, "k1", LineBreak>>],
    [exists |-> TRUE, content |-> <<KeyName, "k2", LineBreak, OtherText, LineBreak>>],
    [exists |-> TRUE, content |-> <<OtherText, LineBreak, KeyName, "k1", LineBreak>>] }

\* Settings.model_post_init calls it with the settings' secret key, once for
\* every Settings object made.
SaveSecretKey ==
  /\ Idle
  /\ \E secret_key \in SecretKeys :
       \E file \in {save_secret_key(secret_key, dotenv)} :
         /\ Len(file.content) <= MaxContent
         /\ dotenv' = file
         /\ HostCall("save_secret_key",
                     [secret_key |-> secret_key, dotenv |-> dotenv], Ok)
  /\ UNCHANGED <<config, config_json, Memories, CHROMA_CLIENT,
                 SESSION_POOL, USER_POOL, sio>>

InitCompat ==
  /\ store = EmptyStore
  /\ last = NoCall
  /\ hist = NoHist
  /\ app = AppStart
  /\ ingests = NoIngests
  /\ dotenv \in DotenvFiles
  /\ config = ConfigStart
  /\ config_json = NoConfigJson
  /\ Memories = NoMemories
  /\ CHROMA_CLIENT = NoMemoryIndex
  /\ SESSION_POOL = NoSessions
  /\ USER_POOL = NoUsers
  /\ sio = NoSockets

NextCompat ==
  \/ SaveSecretKey
  \/ Return

SpecCompat == InitCompat /\ [][NextCompat]_vars

\* ------------------------------------------------------------- Config
\* The fields of Config the model keeps, which of them are sections, and the
\* values given to them.
Sections == {"ui", "ollama"}
WebhookUrls == {"", "http://localhost:8000"}
SectionValues(section) ==
  IF section = "ui" THEN { [default_locale |-> v] : v \in {"en-US", "zh-CN"} }
  ELSE { [enable |-> v] : v \in {"true", "false"} }
AttrValues(name) ==
  IF name \in Sections THEN SectionValues(name) ELSE WebhookUrls
FieldValues(section, field) == { v[field] : v \in SectionValues(section) }

\* object.__setattr__ and object.__delattr__ on the fields of a model.
SetAttr(obj, name, value) ==
  [k \in DOMAIN obj \cup {name} |-> IF k = name THEN value ELSE obj[k]]
DelAttr(obj, name) == [k \in DOMAIN obj \ {name} |-> obj[k]]

\* model_dump(exclude_defaults=True) of a section: the fields it has whose
\* value is not the default.
DumpSection(name, section) ==
  [f \in { f \in DOMAIN section : section[f] # ConfigStart[name][f] } |-> section[f]]

\* model_dump_json(indent=4, exclude_defaults=True), as the object a JSON
\* parser reads back: a section equal to its default is left out, any other
\* is dumped with its own defaults left out.
model_dump(c) ==
  [k \in { k \in DOMAIN c : c[k] # ConfigStart[k] } |->
     IF k \in Sections THEN DumpSection(k, c[k]) ELSE c[k]]

\* Lines 269-271.
save(c) == [exists |-> TRUE, json |-> model_dump(c)]

ConfigEnded(c, file, ended) ==
  [config |-> c, config_json |-> file, outcome |-> ended.outcome, error |-> ended.error]

\* Lines 260-263: Config.__setattr__ saves unless the value now under the
\* name is a model.
Config_setattr(c, file, name, value) ==
  LET c1 == SetAttr(c, name, value)
  IN ConfigEnded(c1, IF name \in Sections THEN file ELSE save(c1), Ok)

\* Lines 265-267: Config.__delattr__.
Config_delattr(c, file, name) ==
  IF name \notin DOMAIN c THEN ConfigEnded(c, file, Raised("AttributeError"))
  ELSE LET c1 == DelAttr(c, name)
       IN ConfigEnded(c1, save(c1), Ok)

\* Lines 235-237: the __setattr__ given to the classes of the sections;
\* config.<section> raises when the section was deleted.
Section_setattr(c, file, section, field, value) ==
  IF section \notin DOMAIN c THEN ConfigEnded(c, file, Raised("AttributeError"))
  ELSE LET c1 == SetAttr(c, section, SetAttr(c[section], field, value))
       IN ConfigEnded(c1, save(c1), Ok)

\* Lines 242-244: the __delattr__ given to the classes of the sections.
Section_delattr(c, file, section, field) ==
  IF section \notin DOMAIN c THEN ConfigEnded(c, file, Raised("AttributeError"))
  ELSE IF field \notin DOMAIN c[section]
    THEN ConfigEnded(c, file, Raised("AttributeError"))
  ELSE LET c1 == SetAttr(c, section, DelAttr(c[section], field))
       IN ConfigEnded(c1, save(c1), Ok)

ConfigOp(op, a, ended) ==
  \E r \in {ended} :
    /\ config' = r.config
    /\ config_json' = r.config_json
    /\ HostCall(op, a, r)
    /\ UNCHANGED <<dotenv, Memories, CHROMA_CLIENT, SESSION_POOL, USER_POOL, sio>>

\* config.<name> = value
ConfigSetattr ==
  /\ Idle
  /\ \E name \in DOMAIN ConfigStart :
       \E value \in AttrValues(name) :
         ConfigOp("Config.__setattr__", [name |-> name, value |-> value],
                  Config_setattr(config, config_json, name, value))

\* del config.<name>
ConfigDelattr ==
  /\ Idle
  /\ \E name \in DOMAIN ConfigStart :
       ConfigOp("Config.__delattr__", [name |-> name],
                Config_delattr(config, config_json, name))

\* config.<section>.<field> = value
SectionSetattr ==
  /\ Idle
  /\ \E section \in Sections :
       \E field \in DOMAIN ConfigStart[section] :
         \E value \in FieldValues(section, field) :
           ConfigOp("Section.__setattr__",
                    [section |-> section, name |-> field, value |-> value],
                    Section_setattr(config, config_json, section, field, value))

\* del config.<section>.<field>
SectionDelattr ==
  /\ Idle
  /\ \E section \in Sections :
       \E field \in DOMAIN ConfigStart[section] :
         ConfigOp("Section.__delattr__", [section |-> section, name |-> field],
                  Section_delattr(config, config_json, section, field))

NextSettings ==
  \/ ConfigSetattr
  \/ ConfigDelattr
  \/ SectionSetattr
  \/ SectionDelattr
  \/ Return

SpecSettings == Init /\ [][NextSettings]_vars

\* ------------------------------------------------------------- memories
\* The ids uuid4 may give to new memories.
MaxMemories == 3
MemoryIds == 1..MaxMemories

\* Memories.get_memories_by_user_id, as the ids of the rows.
MemoriesOf(rows, user) == { r.id : r \in { r \in rows : r.user_id = user } }

\* The ids in collection user-memory-<user>; none when it is absent.
IndexOf(index, user) == IF index[user].exists THEN index[user].ids ELSE {}

MemoryEnd(rows, index, outcome, value, error) ==
  [Memories |-> rows, CHROMA_CLIENT |-> index, outcome |-> outcome,
   value |-> value, error |-> error]

\* The calls of a memory request that may throw.
AddFaults == {"none", "create", "embedding", "get_or_create_collection", "upsert"}
DeleteFaults == {"none", "db", "get_or_create_collection", "delete"}
DeleteAllFaults == {"none", "db", "delete_collection"}
ResetFaults == {"none", "delete_collection", "get_or_create_collection", "embedding", "upsert"}

\* Lines 35-51: the row is written, then the embedding is computed, then the
\* collection is fetched or created and the entry upserted; nothing is caught.
add_memory(rows, index, user, id, fault) ==
  IF fault = "create" THEN MemoryEnd(rows, index, "raised", "", "create")
  ELSE
  LET rows1 == rows \cup {[id |-> id, user_id |-> user]}
      index1 == [index EXCEPT ![user].exists = TRUE]
  IN IF fault \in {"embedding", "get_or_create_collection"}
       THEN MemoryEnd(rows1, index, "raised", "", fault)
     ELSE IF fault = "upsert"
       THEN MemoryEnd(rows1, index1, "raised", "", fault)
     ELSE MemoryEnd(rows1, [index1 EXCEPT ![user].ids = @ \cup {id}], "ok", "memory", "")

\* Lines 81-96: the collection is dropped (which throws when there is none)
\* and made again, then every memory of the user is embedded and upserted.
\* When a call of the loop throws, the memories in `done` are in already.
reset_memory_from_vector_db(rows, index, user, fault, done) ==
  IF fault = "delete_collection" \/ ~index[user].exists
    THEN MemoryEnd(rows, index, "raised", "", "delete_collection")
  ELSE
  LET index1 == [index EXCEPT ![user] = [exists |-> FALSE, ids |-> {}]]
      index2 == [index EXCEPT ![user] = [exists |-> TRUE, ids |-> {}]]
  IN IF fault = "get_or_create_collection"
       THEN MemoryEnd(rows, index1, "raised", "", fault)
     ELSE IF fault \in {"embedding", "upsert"} /\ MemoriesOf(rows, user) # {}
       THEN MemoryEnd(rows, [index2 EXCEPT ![user].ids = done], "raised", "", fault)
     ELSE MemoryEnd(rows, [index2 EXCEPT ![user].ids = MemoriesOf(rows, user)],
                    "ok", "True", "")

\* Lines 104-115: the rows are deleted; a delete_collection that throws is
\* logged and the answer is True all the same.  The table's delete catches
\* its own exception and answers False.
delete_memory_by_user_id(rows, index, user, fault) ==
  IF fault = "db" THEN MemoryEnd(rows, index, "ok", "False", "")
  ELSE
  LET rows1 == { r \in rows : r.user_id # user }
  IN IF fault = "delete_collection" \/ ~index[user].exists
       THEN MemoryEnd(rows1, index, "ok", "True", "")
     ELSE MemoryEnd(rows1, [index EXCEPT ![user] = [exists |-> FALSE, ids |-> {}]],
                    "ok", "True", "")

\* Lines 123-134: the row is deleted, then the collection is fetched or
\* created and the entry deleted from it; nothing is caught.
delete_memory_by_id(rows, index, user, memory_id, fault) ==
  IF fault = "db" THEN MemoryEnd(rows, index, "ok", "False", "")
  ELSE
  LET rows1 == rows \ {[id |-> memory_id, user_id |-> user]}
      index1 == [index EXCEPT ![user].exists = TRUE]
  IN IF fault = "get_or_create_collection"
       THEN MemoryEnd(rows1, index, "raised", "", fault)
     ELSE IF fault = "delete"
       THEN MemoryEnd(rows1, index1, "raised", "", fault)
     ELSE MemoryEnd(rows1, [index1 EXCEPT ![user].ids = @ \ {memory_id}],
                    "ok", "True", "")

MemoryCall(op, a, ended) ==
  \E r \in {ended} :
    /\ Memories' = r.Memories
    /\ CHROMA_CLIENT' = r.CHROMA_CLIENT
    /\ last' = [op |-> op, args |-> a, outcome |-> r.outcome,
                result |-> [isNull |-> FALSE, value |-> r.value],
                calls |-> <<>>, error |-> r.error, pre |-> store, pre_app |-> app]
    /\ UNCHANGED <<store, hist, app, ingests, dotenv, config, config_json,
                   SESSION_POOL, USER_POOL, sio>>

\* The ids no row and no entry carries.
UnusedIds ==
  MemoryIds \ ({ r.id : r \in Memories }
               \cup UNION { IndexOf(CHROMA_CLIENT, u) : u \in MemoryUsers })

AddMemory ==
  /\ Idle
  /\ \E user \in MemoryUsers, id \in UnusedIds, fault \in AddFaults :
       MemoryCall("add_memory", [user |-> user, id |-> id, fault |-> fault],
                  add_memory(Memories, CHROMA_CLIENT, user, id, fault))

ResetMemoryFromVectorDB ==
  /\ Idle
  /\ \E user \in MemoryUsers, fault \in ResetFaults :
       \E done \in SUBSET MemoriesOf(Memories, user) :
         /\ IF fault \in {"embedding", "upsert"} /\ CHROMA_CLIENT[user].exists
            THEN done # MemoriesOf(Memories, user)
            ELSE done = {}
         /\ MemoryCall("reset_memory_from_vector_db",
                       [user |-> user, fault |-> fault, done |-> done],
                       reset_memory_from_vector_db(Memories, CHROMA_CLIENT, user,
                                                   fault, done))

DeleteMemoryByUserId ==
  /\ Idle
  /\ \E user \in MemoryUsers, fault \in DeleteAllFaults :
       MemoryCall("delete_memory_by_user_id", [user |-> user, fault |-> fault],
                  delete_memory_by_user_id(Memories, CHROMA_CLIENT, user, fault))

DeleteMemoryById ==
  /\ Idle
  /\ \E user \in MemoryUsers, memory_id \in MemoryIds, fault \in DeleteFaults :
       MemoryCall("delete_memory_by_id",
                  [user |-> user, memory_id |-> memory_id, fault |-> fault],
                  delete_memory_by_id(Memories, CHROMA_CLIENT, user, memory_id, fault))

NextMemories ==
  \/ AddMemory
  \/ ResetMemoryFromVectorDB
  \/ DeleteMemoryByUserId
  \/ DeleteMemoryById
  \/ Return

SpecMemories == Init /\ [][NextMemories]_vars

\* ------------------------------------------------------------- socket pools
\* The users Users.get_user_by_id finds, and what a client may send as auth:
\* nothing, a token that does not decode, a token for an id no user has, or
\* the token of a user.
SocketUsers == {"u1", "u2"}
Auths == {"none", "undecodable", "unknown"} \cup SocketUsers

\* auth, decode_token and Users.get_user_by_id together: the user, or "None".
UserOf(auth) == IF auth \in SocketUsers THEN auth ELSE "None"

\* The longest list of USER_POOL.
MaxJoins == 3

\* Lines 143-147 and 169-173: the session is recorded for the user, and the
\* session id is put at the end of the user's list.
Join(sessions, users, sid, user) ==
  [SESSION_POOL |-> SetAttr(sessions, sid, user),
   USER_POOL |-> SetAttr(users, user,
                         IF user \in DOMAIN users THEN Append(users[user], sid)
                         ELSE <<sid>>),
   outcome |-> "ok", error |-> ""]

SamePools(sessions, users) ==
  [SESSION_POOL |-> sessions, USER_POOL |-> users, outcome |-> "ok", error |-> ""]

\* Lines 132-151.
connect(sessions, users, sid, auth) ==
  IF UserOf(auth) = "None" THEN SamePools(sessions, users)
  ELSE Join(sessions, users, sid, UserOf(auth))

\* Lines 154-184.
user_join(sessions, users, sid, auth) ==
  IF UserOf(auth) = "None" THEN SamePools(sessions, users)
  ELSE Join(sessions, users, sid, UserOf(auth))

\* The list without the session id.
RECURSIVE Without(_, _)
Without(sids, sid) ==
  IF sids = <<>> THEN <<>>
  ELSE IF Head(sids) = sid THEN Without(Tail(sids), sid)
  ELSE <<Head(sids)>> \o Without(Tail(sids), sid)

\* Lines 244-257.  USER_POOL[user_id] raises KeyError for a user who is not
\* in the pool, after the session was taken out of SESSION_POOL.
disconnect(sessions, users, sid) ==
  IF sid \notin DOMAIN sessions THEN SamePools(sessions, users)
  ELSE
  LET user_id == sessions[sid]
      sessions1 == DelAttr(sessions, sid)
  IN IF user_id \notin DOMAIN users
       THEN [SESSION_POOL |-> sessions1, USER_POOL |-> users,
             outcome |-> "raised", error |-> "KeyError"]
     ELSE LET rest == Without(users[user_id], sid)
          IN SamePools(sessions1,
                       IF rest = <<>> THEN DelAttr(users, user_id)
                       ELSE SetAttr(users, user_id, rest))

\* Lines 359-361.
get_active_status_by_user_id(users, user_id) == user_id \in DOMAIN users

SocketEvent(op, a, ended) ==
  \E r \in {ended} :
    /\ \A u \in DOMAIN r.USER_POOL : Len(r.USER_POOL[u]) <= MaxJoins
    /\ SESSION_POOL' = r.SESSION_POOL
    /\ USER_POOL' = r.USER_POOL
    /\ HostCall(op, a, r)
    /\ UNCHANGED <<dotenv, config, config_json, Memories, CHROMA_CLIENT>>

\* A client connects: the server gives the connection a session id it has
\* not used before.
Connect ==
  /\ Idle
  /\ \E sid \in Sids, auth \in Auths :
       /\ sio[sid].state = "new"
       /\ sio' = [sio EXCEPT ![sid].state = "open",
                             ![sid].users = @ \cup (SocketUsers \cap {auth})]
       /\ SocketEvent("connect", [sid |-> sid, auth |-> auth],
                      connect(SESSION_POOL, USER_POOL, sid, auth))

\* A connected client sends user-join.
UserJoin ==
  /\ Idle
  /\ \E sid \in Sids, auth \in Auths :
       /\ sio[sid].state = "open"
       /\ sio' = [sio EXCEPT ![sid].users = @ \cup (SocketUsers \cap {auth})]
       /\ SocketEvent("user-join", [sid |-> sid, auth |-> auth],
                      user_join(SESSION_POOL, USER_POOL, sid, auth))

\* A connection ends.
Disconnect ==
  /\ Idle
  /\ \E sid \in Sids :
       /\ sio[sid].state = "open"
       /\ sio' = [sio EXCEPT ![sid].state = "closed"]
       /\ SocketEvent("disconnect", [sid |-> sid],
                      disconnect(SESSION_POOL, USER_POOL, sid))

NextSocket ==
  \/ Connect
  \/ UserJoin
  \/ Disconnect
  \/ Return

SpecSocket == Init /\ [][NextSocket]_vars

\* ------------------------------------------------------------- claims on the VectorStore
Triples(ids, documents, metadatas) ==
  { <<ids[n], documents[n], metadatas[n]>> : n \in DOMAIN ids }

\* C2 (round trip): after insert(c, items) of N items with distinct ids into
\* a collection that did not exist, get(c) returns N entries, and they are
\* exactly the (id, text, metadata) of the N items.
C2_RoundTrip ==
  (/\ last.op = "insert" /\ last.outcome = "ok"
   /\ ~last.pre[last.args.coll].exists
   /\ ~HasDupIds(last.args.items))
  => LET g == get(store, last.args.coll, 0)
         items == last.args.items
     IN /\ g.outcome = "ok"
        /\ ~g.result.isNull
        /\ Len(g.result.ids) = 1
        /\ Len(g.result.ids[1]) = Len(items)
        /\ Len(g.result.documents[1]) = Len(items)
        /\ Len(g.result.metadatas[1]) = Len(items)
        /\ Triples(g.result.ids[1], g.result.documents[1], g.result.metadatas[1])
             = { <<items[n].id, items[n].text, items[n].metadata>> : n \in DOMAIN items }

C2_Witness ==
  /\ last.op = "insert" /\ last.outcome = "ok"
  /\ ~last.pre[last.args.coll].exists
  /\ Len(last.args.items) = MaxItems
  /\ ~HasDupIds(last.args.items)

\* C4 (reads degrade): search and query never raise and never change the
\* store; when the collection does not exist or a backend call throws they
\* return None.
C4_SearchQueryDegrade ==
  last.op \in {"search", "query"}
  => /\ last.outcome = "ok"
     /\ store = last.pre
     /\ (~last.pre[last.args.coll].exists \/ last.args.fault # 0) => last.result.isNull

C4_Witness ==
  /\ last.op = "search"
  /\ last.args.fault = 2
  /\ last.pre[last.args.coll].exists
  /\ DOMAIN last.pre[last.args.coll].items # {}
  /\ last.result.isNull

\* C5 (get degrades), as claimed: get never raises, and returns None when the
\* collection does not exist or a backend call throws.
C5_GetDegrades ==
  last.op = "get"
  => /\ last.outcome = "ok"
     /\ (~last.pre[last.args.coll].exists \/ last.args.fault # 0) => last.result.isNull

C5_Witness ==
  /\ last.op = "get" /\ last.outcome = "raised"
  /\ ~last.pre[last.args.coll].exists
  /\ last.args.fault = 0

\* C7 (collection lifecycle), as claimed: a collection exists exactly when an
\* insert or upsert into it has completed since it was last dropped.
C7_AsClaimed == \A c \in Colls : store[c].exists <=> c \in hist.written

\* C7 (collection lifecycle), amended: a collection exists exactly when the
\* get_or_create_collection step of an insert or upsert into it has returned
\* since the last delete_collection of it or reset that returned, whether or
\* not the write of the items that follows succeeded; has_collection reports
\* just that; the name is gone right after delete_collection and every name
\* right after reset; search, query, get, has_collection and the item-level
\* delete create and drop no collection.
C7_Lifecycle ==
  /\ \A c \in Colls : store[c].exists <=> c \in hist.created
  /\ (last.op = "has_collection" /\ last.outcome = "ok")
       => last.result.value = (last.args.coll \in hist.created)
  /\ (last.op = "delete_collection" /\ last.outcome = "ok")
       => ~store[last.args.coll].exists
  /\ (last.op = "reset" /\ last.outcome = "ok")
       => \A c \in Colls : ~store[c].exists
  /\ last.op \in {"search", "query", "get", "has_collection", "delete"}
       => \A c \in Colls : store[c].exists = last.pre[c].exists

C7_Witness ==
  /\ last.op = "insert" /\ last.outcome = "raised"
  /\ ~last.pre[last.args.coll].exists
  /\ store[last.args.coll].exists
  /\ last.args.coll \notin hist.written

\* C8 (upsert replaces by id): after an upsert that returned, every item of
\* the list is in the collection under its id with its text, vector and
\* metadata; the entries under other ids are as before; the item count grew
\* by the number of ids of the list that were not there; the collection
\* exists; other collections are untouched.
C8_UpsertReplaces ==
  (last.op = "upsert" /\ last.outcome = "ok")
  => LET c == last.args.coll
         items == last.args.items
         ids == Range(SeqIds(items))
         old == last.pre[c].items
         new == store[c].items
     IN /\ store[c].exists
        /\ \A n \in DOMAIN items :
             /\ items[n].id \in DOMAIN new
             /\ new[items[n].id].text = items[n].text
             /\ new[items[n].id].vector = items[n].vector
             /\ new[items[n].id].metadata = items[n].metadata
        /\ \A i \in (DOMAIN old \cup DOMAIN new) \ ids :
             i \in DOMAIN old /\ i \in DOMAIN new /\ new[i] = old[i]
        /\ Cardinality(DOMAIN new)
             = Cardinality(DOMAIN old) + Cardinality(ids \ DOMAIN old)
        /\ \A d \in Colls \ {c} : store[d] = last.pre[d]

C8_Witness ==
  /\ last.op = "upsert" /\ last.outcome = "ok"
  /\ \E i \in DOMAIN last.pre[last.args.coll].items :
       /\ i \in Range(SeqIds(last.args.items))
       /\ store[last.args.coll].items[i] # last.pre[last.args.coll].items[i]
  /\ \E i \in Range(SeqIds(last.args.items)) :
       i \notin DOMAIN last.pre[last.args.coll].items

\* C9 (delete removes exactly the matching items): after a delete that
\* returned, an item is in the collection exactly if it was there and is not
\* matched (by the id list when one is given, else by the filter when one is
\* given, else by nothing), and it is unchanged; the collection still exists
\* and other collections are untouched.  A delete that raised changed nothing.
Matched(item_id, metadata, ids, filter) ==
  IF ids # {} THEN item_id \in ids
  ELSE IF DOMAIN filter # {} THEN Matches(metadata, filter)
  ELSE FALSE

C9_DeleteExact ==
  last.op = "delete"
  => LET c == last.args.coll
         old == last.pre[c].items
         new == store[c].items
     IN /\ last.outcome = "raised" => store = last.pre
        /\ last.outcome = "ok" =>
             /\ \A i \in Ids :
                  i \in DOMAIN new
                    <=> (i \in DOMAIN old
                         /\ ~Matched(i, old[i].metadata, last.args.ids, last.args.filter))
             /\ \A i \in DOMAIN new : new[i] = old[i]
             /\ store[c].exists
             /\ \A d \in Colls \ {c} : store[d] = last.pre[d]

C9_Witness ==
  /\ last.op = "delete" /\ last.outcome = "ok"
  /\ last.args.ids = {}
  /\ DOMAIN last.args.filter # {}
  /\ Cardinality(DOMAIN last.pre[last.args.coll].items) = 2
  /\ Cardinality(DOMAIN store[last.args.coll].items) = 1

\* ------------------------------------------------------------- claims on ingestion
HashIn(items, h) ==
  \E i \in DOMAIN items :
    "hash" \in DOMAIN items[i].metadata /\ items[i].metadata.hash = h

Made(calls, op) == \E k \in DOMAIN calls : calls[k].op = op

\* An ingest of content that was ingested before: it has chunks, the splitter
\* setting is one the code accepts, and the collection holds items under the
\* hash it carries (in this specification only ingests write such items).
Reingest ==
  /\ last.op = "ingest"
  /\ last.args.chunks # <<>>
  /\ last.args.splitter \in {"", "character", "token"}
  /\ "hash" \in DOMAIN last.args.metadata
  /\ HashIn(last.pre[last.args.coll].items, last.args.metadata.hash)

\* C1 (dedup), as claimed: an ingest with metadata.hash = h into a collection
\* that holds items an earlier ingest inserted under hash h raises the
\* duplicate-content error, calls neither the embedding function nor insert,
\* and leaves the store as it was.
C1_Dedup ==
  Reingest
  => /\ last.outcome = "raised"
     /\ last.error = "DUPLICATE_CONTENT"
     /\ ~Made(last.calls, "embed")
     /\ ~Made(last.calls, "insert")
     /\ store = last.pre

C1_Witness ==
  /\ Reingest
  /\ last.outcome = "ok"
  /\ Made(last.calls, "insert")
  /\ Cardinality(DOMAIN store[last.args.coll].items) = 2

\* C6 (write failures are not swallowed): a delete or delete_collection in
\* which a backend call throws raises; inside an ingest, an insert or
\* delete_collection in which a backend call throws raises to the ingest, and
\* the ingest raises instead of returning True.
C6_WriteFailuresRaise ==
  /\ (/\ last.op = "delete"
      /\ \/ last.args.fault = 1
         \/ /\ last.args.fault = 2
            /\ last.pre[last.args.coll].exists
            /\ (last.args.ids # {} \/ DOMAIN last.args.filter # {}))
       => last.outcome = "raised"
  /\ (last.op = "delete_collection" /\ last.args.fault = 1)
       => last.outcome = "raised"
  /\ last.op = "ingest"
       => \A k \in DOMAIN last.calls :
            LET call == last.calls[k]
                thrown == \/ call.op = "insert" /\ last.args.fault >= 5
                          \/ call.op = "delete_collection" /\ last.args.fault = 3
            IN /\ thrown => call.outcome = "raised"
               /\ (call.op \in {"insert", "delete_collection"} /\ call.outcome = "raised")
                    => (last.outcome = "raised" /\ last.result.isNull)

C6_Witness ==
  /\ last.op = "ingest"
  /\ last.args.fault = 7
  /\ last.outcome = "raised"
  /\ Made(last.calls, "insert")
  /\ store[last.args.coll] # last.pre[last.args.coll]

\* The hash lookup of the ingest finds the hash in the collection.
DuplicateFound ==
  /\ "hash" \in DOMAIN last.args.metadata
  /\ HashIn(last.pre[last.args.coll].items, last.args.metadata.hash)
  /\ last.args.fault # 1

AcceptedSplitter == last.args.splitter \in {"", "character", "token"}

C12_AlreadyIndexed ==
  (/\ last.op = "ingest" /\ last.args.chunks # <<>> /\ AcceptedSplitter
   /\ last.pre[last.args.coll].exists
   /\ ~last.args.overwrite /\ ~last.args.add
   /\ ~("hash" \in DOMAIN last.args.metadata
         /\ HashIn(last.pre[last.args.coll].items, last.args.metadata.hash))
   /\ last.args.fault \in {0, 1})
  => /\ last.outcome = "ok"
     /\ last.result = [isNull |-> FALSE, value |-> TRUE]
     /\ ~Made(last.calls, "embed")
     /\ ~Made(last.calls, "insert")
     /\ store = last.pre

C12_Witness ==
  /\ last.op = "ingest" /\ last.outcome = "ok"
  /\ Len(last.args.chunks) = 2
  /\ "hash" \in DOMAIN last.args.metadata
  /\ ~last.args.overwrite /\ ~last.args.add
  /\ DOMAIN last.pre[last.args.coll].items # {}
  /\ ~HashIn(last.pre[last.args.coll].items, last.args.metadata.hash)
  /\ store = last.pre

\* The items under the ids in D are one item per chunk: for every text as
\* many items as chunks, each with the vector of the text and the metadata
\* the ingest writes.
OnePerChunk(items, D, chunks, metadata) ==
  /\ Cardinality(D) = Len(chunks)
  /\ \A i \in D :
       /\ items[i].vector = Embed(items[i].text)
       /\ items[i].metadata = ChunkMetadata(metadata)
  /\ \A t \in Range(chunks) :
       Cardinality({ i \in D : items[i].text = t })
         = Cardinality({ k \in DOMAIN chunks : chunks[k] = t })

\* C13 (mode post-state): after an ingest of n chunks that returned True and
\* called insert, into a collection that held m items: with overwrite=true
\* the collection holds n items, one per chunk, and nothing else; with
\* overwrite=false (add=true, or the collection did not exist) it holds the
\* m old items unchanged and n more, one per chunk.
C13_ModePostState ==
  (last.op = "ingest" /\ last.outcome = "ok" /\ Made(last.calls, "insert"))
  => LET old == last.pre[last.args.coll].items
         new == store[last.args.coll].items
         chunks == last.args.chunks
     IN /\ store[last.args.coll].exists
        /\ last.args.overwrite
             => OnePerChunk(new, DOMAIN new, chunks, last.args.metadata)
        /\ ~last.args.overwrite
             => /\ last.args.add \/ ~last.pre[last.args.coll].exists
                /\ \A i \in DOMAIN old : i \in DOMAIN new /\ new[i] = old[i]
                /\ Cardinality(DOMAIN new) = Cardinality(DOMAIN old) + Len(chunks)
                /\ OnePerChunk(new, DOMAIN new \ DOMAIN old, chunks, last.args.metadata)

\* An add of one chunk to a collection of one item.
C13_Witness ==
  /\ last.op = "ingest" /\ last.outcome = "ok" /\ Made(last.calls, "insert")
  /\ ~last.args.overwrite /\ last.args.add
  /\ Cardinality(DOMAIN last.pre[last.args.coll].items) = 1
  /\ Cardinality(DOMAIN store[last.args.coll].items) = 2

\* C14 (write after embed): in an ingest, insert is called only after the
\* embedding function has returned; when the embedding function raises, the
\* ingest raises, insert is not called and the collection holds no item it
\* did not hold before.
C14_WriteAfterEmbed ==
  last.op = "ingest"
  => /\ \A k \in DOMAIN last.calls :
          last.calls[k].op = "insert"
          => \E j \in 1..(k - 1) : last.calls[j] = [op |-> "embed", outcome |-> "ok"]
     /\ (\E k \in DOMAIN last.calls : last.calls[k] = [op |-> "embed", outcome |-> "raised"])
          => /\ last.outcome = "raised"
             /\ last.error = "embedding"
             /\ ~Made(last.calls, "insert")
             /\ \A i \in DOMAIN store[last.args.coll].items :
                  /\ i \in DOMAIN last.pre[last.args.coll].items
                  /\ store[last.args.coll].items[i] = last.pre[last.args.coll].items[i]

\* The embedding function raises in an add to a collection that holds an item.
C14_Witness ==
  /\ last.op = "ingest" /\ last.args.fault = 4
  /\ last.args.add /\ ~last.args.overwrite
  /\ Len(last.args.chunks) = 2
  /\ DOMAIN last.pre[last.args.coll].items # {}
  /\ last.error = "embedding"
  /\ store = last.pre

\* C26 (failed ingest leaves the store as it was), as claimed: after an
\* ingest that raised, the collection exists exactly if it existed before
\* and holds the items it held before.
C26_AsClaimed ==
  (last.op = "ingest" /\ last.outcome = "raised")
  => store[last.args.coll] = last.pre[last.args.coll]

\* The ingest dropped the collection it was to overwrite.
Dropped == last.args.overwrite /\ last.pre[last.args.coll].exists

\* C26 (failed ingest leaves the store as it was), amended: an ingest that
\* raised for a duplicate hash, empty content or an invalid splitter, or in
\* the embedding function without having dropped the collection, leaves the
\* store as it was; one that raised in the embedding function after
\* overwrite dropped the collection leaves the collection absent; and one
\* that raised in a call of the backend, overwrite aside, leaves every item
\* the collection held as it was.
C26_FailedIngest ==
  (last.op = "ingest" /\ last.outcome = "raised")
  => /\ \A c \in Colls \ {last.args.coll} : store[c] = last.pre[c]
     /\ last.error \in {"DUPLICATE_CONTENT", "EMPTY_CONTENT", "Invalid text splitter"}
          => store = last.pre
     /\ (last.error = "embedding" /\ ~Dropped) => store = last.pre
     /\ (last.error = "embedding" /\ Dropped) => store[last.args.coll] = NoCollection
     /\ (last.error = "backend" /\ ~Dropped)
          => \A i \in DOMAIN last.pre[last.args.coll].items :
               /\ i \in DOMAIN store[last.args.coll].items
               /\ store[last.args.coll].items[i] = last.pre[last.args.coll].items[i]

\* The embedding function threw in an overwrite of a collection that held
\* items: the items are gone.
C26_Witness ==
  /\ last.op = "ingest" /\ last.outcome = "raised" /\ last.error = "embedding"
  /\ last.args.overwrite
  /\ last.pre[last.args.coll].items # NoItems
  /\ store[last.args.coll] = NoCollection

\* The items of collection c1 under hash h.
UnderHash(h) ==
  { i \in DOMAIN store["c1"].items : HashIn(Restrict(store["c1"].items, {i}), h) }

\* Worker w has made an ingest with hash h that inserted its chunks.
Inserted(w, h) ==
  /\ ingests[w].pc = "done" /\ ingests[w].outcome = "ok"
  /\ ingests[w].metadata.hash = h
  /\ Made(ingests[w].calls, "insert")

\* C20 (dedup under concurrency), as claimed: of two ingests with the same
\* hash into the same collection at the same time, at most one inserts its
\* chunks and the other raises the duplicate-content error; the collection
\* never holds the chunks of two ingests of one hash.
C20_ConcurrentDedup ==
  \A h \in Hashes :
    /\ \A v, w \in Workers :
         (v # w /\ Inserted(v, h) /\ ingests[w].pc = "done" /\ ingests[w].metadata.hash = h)
           => (ingests[w].outcome = "raised" /\ ingests[w].error = "DUPLICATE_CONTENT")
    /\ \A w \in Workers :
         Inserted(w, h) => Cardinality(UnderHash(h)) <= Len(ingests[w].chunks)

\* Both ingests looked the hash up before either wrote: both inserted, and
\* the collection holds the chunk of each under the one hash.
C20_Witness ==
  /\ \A w \in Workers : Inserted(w, "h1") /\ Len(ingests[w].chunks) = 1
  /\ Cardinality(UnderHash("h1")) = 2

C28_DeleteByFile ==
  (/\ last.op = "delete_entries_from_collection" /\ last.args.fault = 0
   /\ ~get_file_by_id(last.args.file_id).isNull)
  => /\ last.outcome = "ok"
     /\ \A c \in Colls \ {last.args.coll} : store[c] = last.pre[c]
     /\ IF last.pre[last.args.coll].exists
        THEN /\ last.result.status = TRUE
             /\ store[last.args.coll].exists
             /\ store[last.args.coll].items
                  = Restrict(last.pre[last.args.coll].items,
                             { i \in DOMAIN last.pre[last.args.coll].items :
                                 ~Matches(last.pre[last.args.coll].items[i].metadata,
                                          [hash |-> get_file_by_id(last.args.file_id).hash]) })
        ELSE /\ last.result.status = FALSE
             /\ store = last.pre

\* The collection holds an item under the hash of the file; the endpoint
\* answers status false and the item is still there.
C28_Witness ==
  /\ last.op = "delete_entries_from_collection" /\ last.args.fault = 0
  /\ last.args.file_id = "f1"
  /\ HashIn(last.pre[last.args.coll].items, "h1")
  /\ last.outcome = "ok" /\ last.result.status = FALSE
  /\ last.calls[2] = [op |-> "delete", outcome |-> "raised"]
  /\ store = last.pre

\* The one save of the batch raised.
SaveRaised ==
  /\ last.op = "process_files_batch"
  /\ last.calls = <<[op |-> "save_docs_to_vector_db", outcome |-> "raised"]>>

\* The files of the batch that were prepared.
PreparedIds == { last.args.files[n].id :
                   n \in { m \in DOMAIN last.args.files : last.args.files[m].content # "None" } }

\* C25 (batch ingestion failure is reported, not raised), as claimed: when
\* save_docs_to_vector_db raises inside process_files_batch the call returns
\* a response in which every prepared file has status "failed" and is listed
\* in errors with a message; a file has status "completed" only if the save
\* succeeded.
C25_BatchFailureReported ==
  /\ SaveRaised
       => /\ last.outcome = "ok"
          /\ \A id \in PreparedIds :
               /\ \E n \in DOMAIN last.result.results :
                    /\ last.result.results[n].file_id = id
                    /\ last.result.results[n].status = "failed"
               /\ \E n \in DOMAIN last.result.errors :
                    /\ last.result.errors[n].file_id = id
                    /\ last.result.errors[n].error # "None"
  /\ (last.op = "process_files_batch" /\ last.outcome = "ok")
       => \A n \in DOMAIN last.result.results :
            last.result.results[n].status = "completed"
              => last.calls = <<[op |-> "save_docs_to_vector_db", outcome |-> "ok"]>>

\* The save raised for two prepared files, and so did the call.
C25_Witness ==
  /\ SaveRaised
  /\ Cardinality(PreparedIds) = 2
  /\ last.outcome = "raised" /\ last.error = "ValidationError"

\* ------------------------------------------------------------- claims on retrieval
Min(x, y) == IF x <= y THEN x ELSE y

PairwiseDistinct(items, q) ==
  \A i, j \in DOMAIN items :
    i # j => Distance(items[i].vector, q) # Distance(items[j].vector, q)

\* C10 (search ordering): a search of an existing collection in which no
\* backend call throws returns one result list per query vector; for a query
\* vector from which the items lie at pairwise distinct distances, the list
\* has min(limit, number of items) entries, each an item of the collection
\* with its distance, text and metadata, in strictly ascending distance, and
\* every item left out is farther than every item listed.
C10_SearchOrdering ==
  (last.op = "search" /\ last.args.fault = 0 /\ last.pre[last.args.coll].exists)
  => LET items == last.pre[last.args.coll].items
         vs == last.args.vectors
         r == last.result
     IN /\ last.outcome = "ok" /\ ~r.isNull
        /\ Len(r.ids) = Len(vs) /\ Len(r.distances) = Len(vs)
        /\ Len(r.documents) = Len(vs) /\ Len(r.metadatas) = Len(vs)
        /\ \A n \in DOMAIN vs :
             PairwiseDistinct(items, vs[n])
             => LET ids == r.ids[n]
                    ds == r.distances[n]
                IN /\ Len(ids) = Min(last.args.limit, Cardinality(DOMAIN items))
                   /\ Len(ds) = Len(ids)
                   /\ Len(r.documents[n]) = Len(ids) /\ Len(r.metadatas[n]) = Len(ids)
                   /\ \A m \in DOMAIN ids :
                        /\ ids[m] \in DOMAIN items
                        /\ ds[m] = Distance(items[ids[m]].vector, vs[n])
                        /\ r.documents[n][m] = items[ids[m]].text
                        /\ r.metadatas[n][m] = items[ids[m]].metadata
                   /\ \A m \in 1..(Len(ids) - 1) : ds[m] < ds[m + 1]
                   /\ \A j \in DOMAIN items \ Range(ids), m \in DOMAIN ids :
                        ds[m] < Distance(items[j].vector, vs[n])

\* Three items at distinct distances from each of two query vectors, limit 2:
\* the two lists name different nearest items, and one item is left out of each.
C10_Witness ==
  /\ last.op = "search" /\ last.args.fault = 0 /\ ~last.result.isNull
  /\ last.args.limit = 2
  /\ Len(last.args.vectors) = 2
  /\ Cardinality(DOMAIN last.pre[last.args.coll].items) = 3
  /\ \A n \in 1..2 : PairwiseDistinct(last.pre[last.args.coll].items, last.args.vectors[n])
  /\ last.result.ids[1][1] # last.result.ids[2][1]
  /\ Len(last.result.ids[1]) = 2

\* C3 (merge correctness): POST /query/collection over a list of collections
\* answers with the global top k of the union of the per-collection results
\* (retrieve_one of each collection), k being the form's k or else
\* config.TOP_K: min(k, size of the union) passages, all of the union, none
\* twice, best first under the shared ranking key, and no passage of the
\* union that is left out ranks strictly better than one that is listed.  In
\* dense retrieval without a backend fault that is the global top k of all
\* the items of the named collections by distance.
C3_MergeTopK ==
  (last.op = "query_collection" /\ last.outcome = "ok")
  => LET a == last.args
         names == a.collection_names
         k == FormOr(a.k, app.TOP_K)
         r == FormOr(a.r, app.RELEVANCE_THRESHOLD)
         reranking == app.ENABLE_RAG_HYBRID_SEARCH
         mode == RankingKey(reranking, app.rf)
         union == UNION { Range(retrieve_one(last.pre, names[j], a.query, k, reranking,
                                             app.rf, r, IF a.fault = j + 1 THEN 2 ELSE 0)) :
                            j \in DOMAIN names }
         hits == last.result.hits
         all == UNION { {c} \X DOMAIN last.pre[c].items : c \in Range(names) }
     IN /\ Len(hits) = Min(k, Cardinality(union))
        /\ Range(hits) \subseteq union
        /\ Cardinality(Range(hits)) = Len(hits)
        /\ \A m \in 1..(Len(hits) - 1) : ~Better(mode, hits[m + 1], hits[m])
        /\ \A o \in union \ Range(hits), h \in Range(hits) : ~Better(mode, o, h)
        /\ (mode = "distance" /\ a.fault = 0)
             => /\ Len(hits) = Min(k, Cardinality(all))
                /\ \A m \in DOMAIN hits :
                     /\ <<hits[m].coll, hits[m].id>> \in all
                     /\ hits[m].key = Distance(last.pre[hits[m].coll].items[hits[m].id].vector,
                                                Embed(a.query))
                /\ \A o \in all \ { <<hits[m].coll, hits[m].id>> : m \in DOMAIN hits } :
                     \A m \in DOMAIN hits :
                       Distance(last.pre[o[1]].items[o[2]].vector, Embed(a.query))
                         >= hits[m].key

\* Two collections, each with k or more passages of its own: a passage in
\* the top k of its collection is left out of the merged top k, which holds
\* passages of both collections.
C3_Witness ==
  /\ last.op = "query_collection" /\ last.outcome = "ok"
  /\ last.args.fault = 0
  /\ last.args.k = 2
  /\ Len(last.args.collection_names) = 2
  /\ \A c \in Colls : Cardinality(DOMAIN last.pre[c].items) >= 2
  /\ Len(last.result.hits) = 2
  /\ { last.result.hits[m].coll : m \in 1..2 } = Colls
  /\ \E c \in Colls :
       \E x \in Range(retrieve_one(last.pre, c, last.args.query, 2,
                                   app.ENABLE_RAG_HYBRID_SEARCH, app.rf,
                                   FormOr(last.args.r, app.RELEVANCE_THRESHOLD), 0)) :
         x \notin Range(last.result.hits)

\* The candidate pool of a query_doc with reranking: the LargeK(k) items of
\* the collection nearest to the query, as (id, score) pairs.
ScoredPool ==
  LET items == last.pre[last.args.coll].items
      k == FormOr(last.args.k, app.TOP_K)
      near == IF last.pre[last.args.coll].exists /\ last.args.fault = 0
              THEN Take(SortByDistance(items, Embed(last.args.query), DOMAIN items),
                        LargeK(k))
              ELSE <<>>
  IN { <<near[m], Score(last.args.query, items[near[m]].text)>> : m \in DOMAIN near }

\* C16 (reranked retrieval): POST /query/doc with hybrid search on and a
\* reranker loaded answers with passages of the candidate pool, none twice,
\* each with its rerank score, in descending score, none below the relevance
\* threshold (the form's r or else config.RELEVANCE_THRESHOLD), at most k of
\* them (the form's k or else config.TOP_K); it has min(k, number of
\* candidates at or above the threshold) entries and every candidate at or
\* above the threshold that is left out scores no higher than any listed.
C16_RerankedRetrieval ==
  (/\ last.op = "query_doc" /\ last.outcome = "ok"
   /\ app.ENABLE_RAG_HYBRID_SEARCH /\ app.rf # "None")
  => LET hits == last.result.hits
         k == FormOr(last.args.k, app.TOP_K)
         r == FormOr(last.args.r, app.RELEVANCE_THRESHOLD)
         listed == { <<hits[m].id, hits[m].key>> : m \in DOMAIN hits }
         kept == { p \in ScoredPool : p[2] >= r }
     IN /\ listed \subseteq kept
        /\ Cardinality(listed) = Len(hits)
        /\ Len(hits) = Min(k, Cardinality(kept))
        /\ \A m \in 1..(Len(hits) - 1) : hits[m].key >= hits[m + 1].key
        /\ \A p \in kept \ listed, m \in DOMAIN hits : p[2] <= hits[m].key
        /\ \A m \in DOMAIN hits :
             /\ hits[m].coll = last.args.coll
             /\ hits[m].document = last.pre[last.args.coll].items[hits[m].id].text

\* A pool of three, one candidate below the threshold, k = 2: two are listed
\* and the first of them is not the nearest.
C16_Witness ==
  /\ last.op = "query_doc" /\ last.outcome = "ok"
  /\ app.ENABLE_RAG_HYBRID_SEARCH /\ app.rf # "None"
  /\ last.args.r = 4 /\ last.args.k = 2
  /\ Cardinality(ScoredPool) = 3
  /\ Cardinality({ p \in ScoredPool : p[2] >= 4 }) = 2
  /\ Len(last.result.hits) = 2
  /\ last.result.hits[1].id
       # SortByDistance(last.pre[last.args.coll].items, Embed(last.args.query),
                        DOMAIN last.pre[last.args.coll].items)[1]

\* ------------------------------------------------------------- claims on configuration
HybridPaths == {"query_doc_with_hybrid_search", "query_collection_with_hybrid_search"}

\* C15 (reranker fallback): an update_reranking_config in which loading the
\* reranker raises still answers with status true, and hybrid search is off
\* after it; a query_doc or query_collection request calls the hybrid
\* function exactly when hybrid search is on; and hybrid search goes from off
\* to on only by an update_query_settings that asks for hybrid.
C15_RerankerFallback ==
  /\ [](/\ (last.op = "update_reranking_config" /\ last.args.fails)
            => /\ last.outcome = "ok"
               /\ last.result.status = TRUE
               /\ ~app.ENABLE_RAG_HYBRID_SEARCH
        /\ (last.op \in {"query_doc", "query_collection"} /\ last.outcome = "ok")
            => /\ Len(last.calls) = 1
               /\ (last.calls[1].op \in HybridPaths) = app.ENABLE_RAG_HYBRID_SEARCH)
  /\ [][(~app.ENABLE_RAG_HYBRID_SEARCH /\ app'.ENABLE_RAG_HYBRID_SEARCH)
          => (last'.op = "update_query_settings" /\ last'.args.hybrid)]_vars

\* Hybrid search was on, with a reranker loaded, when the load of another
\* model failed.
C15_Witness ==
  /\ last.op = "update_reranking_config" /\ last.args.fails
  /\ last.pre_app.ENABLE_RAG_HYBRID_SEARCH
  /\ last.pre_app.rf = "CrossEncoder"
  /\ last.args.reranking_model = "ColBERT"
  /\ ~app.ENABLE_RAG_HYBRID_SEARCH

\* Hybrid search is on and no reranker is loaded.
HybridWithoutReranker(a) == a.ENABLE_RAG_HYBRID_SEARCH /\ a.rf = "None"

\* C24 (hybrid without reranker is reachable): a query_doc or
\* query_collection request made while hybrid search is on and no reranker
\* is loaded calls the hybrid function, with None for the reranking function,
\* and answers what that call returns.
C24_HybridWithoutReranker ==
  /\ (/\ last.op = "query_doc" /\ last.args.fault # 1
      /\ HybridWithoutReranker(last.pre_app))
       => /\ last.outcome = "ok"
          /\ last.calls = <<[op |-> "query_doc_with_hybrid_search", outcome |-> "ok"]>>
          /\ last.result.hits
               = query_doc_with_hybrid_search(
                   last.pre, last.args.coll, last.args.query,
                   FormOr(last.args.k, last.pre_app.TOP_K), "None",
                   FormOr(last.args.r, last.pre_app.RELEVANCE_THRESHOLD),
                   last.args.fault)
  /\ (/\ last.op = "query_collection" /\ last.args.fault # 1
      /\ HybridWithoutReranker(last.pre_app))
       => /\ last.outcome = "ok"
          /\ last.calls
               = <<[op |-> "query_collection_with_hybrid_search", outcome |-> "ok"]>>
          /\ last.result.hits
               = query_collection_with_hybrid_search(
                   last.pre, last.args.collection_names, last.args.query,
                   FormOr(last.args.k, last.pre_app.TOP_K), "None",
                   FormOr(last.args.r, last.pre_app.RELEVANCE_THRESHOLD),
                   last.args.fault)

\* The state is reached through the two admin operations: a reranker was
\* loaded and hybrid search switched on, then the reranking model was set to
\* the empty name; the query that follows takes the hybrid path.
C24_Witness ==
  /\ last.op = "query_doc" /\ last.outcome = "ok"
  /\ HybridWithoutReranker(app)
  /\ app.RAG_RERANKING_MODEL = ""
  /\ app.TOP_K # AppStart.TOP_K
  /\ last.calls[1].op = "query_doc_with_hybrid_search"
  /\ last.result.hits # <<>>

\* C27 (reranker state matches its configuration), as claimed: app.state.rf
\* is the reranker built from the configured RAG_RERANKING_MODEL, None when
\* that name is empty, whether the loads before succeeded or failed.
C27_RerankerMatchesConfig ==
  app.rf = IF app.RAG_RERANKING_MODEL = "" THEN "None" ELSE app.RAG_RERANKING_MODEL

\* A load failed with another reranker loaded: the new name is configured
\* next to the reranker loaded before.
C27_Witness ==
  /\ last.op = "update_reranking_config" /\ last.args.fails
  /\ last.outcome = "ok"
  /\ last.pre_app.rf = "CrossEncoder"
  /\ app.RAG_RERANKING_MODEL = "ColBERT"
  /\ app.rf = "CrossEncoder"

\* ------------------------------------------------------------- claims on the scorer
\* The MaxSim score of document i against the one query: over the query
\* tokens, the sum of the largest similarity to a token of the document.
MaxSim(q, doc) ==
  SumSeq([tq \in DOMAIN q |-> MaxOf({ Dot(doc[td], q[tq]) : td \in DOMAIN doc })])

\* scores is a distribution over n candidates whose MaxSim scores are sims:
\* n values between 0 and 1 that sum to 1 within 10^-6, a candidate with a
\* higher MaxSim score has no lower value, and candidates with the same MaxSim
\* score have the same value.
Distribution(scores, sims) ==
  /\ Len(scores) = Len(sims)
  /\ \A i \in DOMAIN scores : 0 <= scores[i] /\ scores[i] <= One
  /\ SumSeq(scores) - One <= One \div 1000000
  /\ One - SumSeq(scores) <= One \div 1000000
  /\ \A i, j \in DOMAIN scores : sims[i] >= sims[j] => scores[i] >= scores[j]

\* C17 (scores form a distribution): predict over N >= 1 pairs, and
\* calculate_similarity_scores for one query and N >= 1 documents of at least
\* one token with the feature size of the query, return N values in the
\* order of the candidates that are a distribution over them.
C17_ScoresDistribution ==
  /\ (last.op = "predict" /\ last.args.sentences # <<>>)
       => /\ last.outcome = "ok"
          /\ Distribution(last.result.scores,
                          [i \in DOMAIN last.args.sentences |->
                             MaxSim(TokenEmbeddings(last.args.sentences[1][1]),
                                    TokenEmbeddings(last.args.sentences[i][2]))])
  /\ (/\ last.op = "calculate_similarity_scores"
      /\ Dim(last.args.query_embeddings) = 3 /\ Dim(last.args.document_embeddings) = 3
      /\ last.args.query_embeddings.size[1] = 1
      /\ last.args.document_embeddings.size[1] >= 1
      /\ last.args.document_embeddings.size[2] >= 1
      /\ last.args.query_embeddings.size[3] = last.args.document_embeddings.size[3])
       => /\ last.outcome = "ok"
          /\ Distribution(last.result.scores,
                          [i \in DOMAIN last.args.document_embeddings.data |->
                             MaxSim(last.args.query_embeddings.data[1],
                                    last.args.document_embeddings.data[i])])

\* Three candidates, not all with the same score, the query among them.
C17_Witness ==
  /\ last.op = "predict" /\ last.outcome = "ok"
  /\ Len(last.args.sentences) = 3
  /\ last.args.sentences[2][2] = last.args.sentences[1][1]
  /\ last.result.scores[2] > last.result.scores[1]
  /\ last.result.scores[1] > last.result.scores[3]
  /\ last.result.scores[3] > 0

PassesChecks ==
  /\ Dim(last.args.query_embeddings) = 3
  /\ Dim(last.args.document_embeddings) = 3
  /\ last.args.query_embeddings.size[1] \in {1, last.args.document_embeddings.size[1]}

\* C18 (input validation), as claimed: calculate_similarity_scores raises
\* ValueError when a tensor is not of rank 3 or the query batch size is
\* neither 1 nor the number of documents, and returns one score per document
\* for every other input.
C18_AsClaimed ==
  last.op = "calculate_similarity_scores"
  => /\ ~PassesChecks => (last.outcome = "raised" /\ last.error = "ValueError")
     /\ PassesChecks
          => /\ last.outcome = "ok"
             /\ Len(last.result.scores) = last.args.document_embeddings.size[1]

\* C18 (input validation), amended: the same, with one score per document
\* for the inputs that pass the checks and in which the feature size of the
\* query is that of the documents and the documents have at least one token.
C18_Validation ==
  last.op = "calculate_similarity_scores"
  => /\ ~PassesChecks => (last.outcome = "raised" /\ last.error = "ValueError")
     /\ (/\ PassesChecks
         /\ last.args.query_embeddings.size[3] = last.args.document_embeddings.size[3]
         /\ last.args.document_embeddings.size[2] >= 1)
          => /\ last.outcome = "ok"
             /\ Len(last.result.scores) = last.args.document_embeddings.size[1]

\* The checks pass, the feature sizes differ, and the call raises something
\* that is not a ValueError.
C18_Witness ==
  /\ last.op = "calculate_similarity_scores"
  /\ PassesChecks
  /\ last.args.query_embeddings.size[3] # last.args.document_embeddings.size[3]
  /\ last.outcome = "raised" /\ last.error = "RuntimeError"

\* ------------------------------------------------------------- claims on parse_duration
\* The place of a unit in the order w, d, h, m, s, ms.
Place(unit) ==
  CASE unit = "weeks" -> 1 [] unit = "days" -> 2 [] unit = "hours" -> 3
    [] unit = "minutes" -> 4 [] unit = "seconds" -> 5 [] OTHER -> 6

InOrder(parts) ==
  \A m, n \in DOMAIN parts : m < n => Place(parts[m].unit) < Place(parts[n].unit)

\* The numbers of Numbers, in halves: 1, 20, -3 and 1.5.
Halves(number) ==
  CASE number = <<"1">> -> 2 [] number = <<"2", "0">> -> 40
    [] number = <<"-", "3">> -> 0 - 6 [] OTHER -> 3

\* A component in half days (weeks and days) and in half milliseconds (the
\* other units).
HalfDays(part) ==
  Halves(part.number) * CASE part.unit = "weeks" -> 7 [] part.unit = "days" -> 1 [] OTHER -> 0

HalfMilliseconds(part) ==
  Halves(part.number) * CASE part.unit = "hours" -> 3600000
                           [] part.unit = "minutes" -> 60000
                           [] part.unit = "seconds" -> 1000
                           [] part.unit = "milliseconds" -> 1
                           [] OTHER -> 0

\* The timedelta t is the sum of the parts: it is normalised, and its days
\* and its time of day add up to the half days and half milliseconds of the
\* parts, some half days carried from one to the other.
IsSumOf(t, parts) ==
  LET halfDays == SumSeq([n \in DOMAIN parts |-> HalfDays(parts[n])])
      halfMs == SumSeq([n \in DOMAIN parts |-> HalfMilliseconds(parts[n])])
  IN /\ 0 <= t.seconds /\ t.seconds < 86400
     /\ 0 <= t.microseconds /\ t.microseconds < 1000000
     /\ t.microseconds % 500 = 0
     /\ \E carry \in -4..4 :
          /\ 2 * t.days = halfDays + carry
          /\ t.seconds * 2000 + t.microseconds \div 500 = halfMs - carry * 86400000

\* C23 (parse_duration): None for "-1" and for "0"; for components in the
\* order w, d, h, m, s, ms, each unit at most once, the timedelta that is
\* their sum; ValueError for components out of that order or with a unit
\* twice.
C23_ParseDuration ==
  last.op = "parse_duration"
  => /\ last.args.duration \in {<<"-", "1">>, <<"0">>}
          => (last.outcome = "ok" /\ last.result.isNull)
     /\ (last.args.duration = Written(last.args.parts) /\ InOrder(last.args.parts))
          => /\ last.outcome = "ok" /\ ~last.result.isNull
             /\ IsSumOf(last.result.timedelta, last.args.parts)
     /\ (last.args.parts # <<>> /\ ~InOrder(last.args.parts))
          => (last.outcome = "raised" /\ last.error = "ValueError")

\* Minutes, seconds and milliseconds, each with its number, in one string.
C23_Witness ==
  /\ last.op = "parse_duration" /\ last.outcome = "ok"
  /\ last.args.duration = <<"2", "0", "m", "1", ".", "5", "s", "-", "3", "m", "s">>
  /\ last.result.timedelta = [days |-> 0, seconds |-> 1201, microseconds |-> 497000]

\* ------------------------------------------------------------- claims on save_secret_key
\* The lines of a dotenv text that set the secret key.
KeyLines(content) ==
  { n \in DOMAIN content :
      /\ content[n] = KeyName
      /\ n = 1 \/ content[n - 1] = LineBreak }

\* C22 (save_secret_key is idempotent): a call on a file without an
\* OMNI_WEBUI_SECRET_KEY= line leaves the old content followed by
\* "\nOMNI_WEBUI_SECRET_KEY=<key>\n", and a call on a file that has such a
\* line, on any line, leaves the file as it was.
C22_Idempotent ==
  last.op = "save_secret_key" =>
    \E before \in {last.args.dotenv} :
      IF before.exists /\ KeyLines(before.content) # {}
      THEN dotenv = before
      ELSE /\ dotenv.exists
           /\ dotenv.content =
                (IF before.exists THEN before.content ELSE <<>>)
                \o <<LineBreak, KeyName, last.args.secret_key, LineBreak>>

\* A second call on the file the first call made out of nothing wrote a
\* second key line.
C22_Witness ==
  /\ last.op = "save_secret_key"
  /\ last.args.dotenv = [exists |-> TRUE,
                         content |-> <<LineBreak, KeyName, "k1", LineBreak>>]
  /\ Cardinality(KeyLines(dotenv.content)) = 2

\* ------------------------------------------------------------- claims on Config
ConfigOps ==
  {"Config.__setattr__", "Config.__delattr__", "Section.__setattr__", "Section.__delattr__"}

\* C21 (config persistence): config.json is absent as long as nothing was
\* assigned or deleted, and after every assignment or deletion of an
\* attribute of the config object or of one of its sections the file holds
\* the dump of the config of that moment without the default-valued fields.
C21_ConfigPersisted ==
  /\ \/ ~config_json.exists /\ config = ConfigStart
     \/ config_json.exists /\ config_json.json = model_dump(config)
  /\ (last.op \in ConfigOps /\ last.outcome = "ok") => config_json = save(config)

\* A section with a value of its own was assigned to the config object, and
\* config.json was not written.
C21_Witness ==
  /\ last.op = "Config.__setattr__"
  /\ last.args.name = "ui"
  /\ config.ui = [default_locale |-> "zh-CN"]
  /\ config_json # save(config)

\* ------------------------------------------------------------- claims on memories
\* C29 (memory index consistency): for every user, between memory requests,
\* the ids in collection user-memory-<user> are the ids of the user's rows in
\* the memory table, an absent collection counting as empty; this also after
\* requests in which the embedding function or the vector store threw.
C29_MemoryIndexConsistent ==
  \A user \in MemoryUsers :
    IndexOf(CHROMA_CLIENT, user) = MemoriesOf(Memories, user)

\* add_memory raised in the embedding function: the row is in the table and
\* the collection has no entry for it.
C29_Witness ==
  /\ last.op = "add_memory"
  /\ last.outcome = "raised"
  /\ last.error = "embedding"
  /\ last.args.id \in MemoriesOf(Memories, last.args.user)
  /\ last.args.id \notin IndexOf(CHROMA_CLIENT, last.args.user)

\* ------------------------------------------------------------- claims on the socket pools
Listed(sid, user) ==
  /\ user \in DOMAIN USER_POOL
  /\ \E n \in DOMAIN USER_POOL[user] : USER_POOL[user][n] = sid

\* C30 (socket pools stay consistent): a session id is listed under a user
\* in USER_POOL exactly if SESSION_POOL has it as a key and records that user
\* for it; no user of USER_POOL has an empty list; and
\* get_active_status_by_user_id(u) is true exactly when a session that
\* authenticated as u is still connected.
C30_PoolsConsistent ==
  /\ \A sid \in Sids, user \in SocketUsers :
       Listed(sid, user) <=> (sid \in DOMAIN SESSION_POOL /\ SESSION_POOL[sid] = user)
  /\ \A user \in DOMAIN USER_POOL : USER_POOL[user] # <<>>
  /\ \A user \in SocketUsers :
       get_active_status_by_user_id(USER_POOL, user)
         <=> \E sid \in Sids : sio[sid].state = "open" /\ user \in sio[sid].users

\* A session that joined as two users has disconnected, and one of them
\* still lists it.
C30_Witness ==
  /\ last.op = "disconnect"
  /\ sio[last.args.sid].state = "closed"
  /\ \E user \in SocketUsers : Listed(last.args.sid, user)

====
